---- MODULE Spec2Model ----
(***************************************************************************)
(* PR notification pipeline of agentic-cicd: webhook signature check,      *)
(* event extraction, AI-assisted content generation with a templated       *)
(* fallback, mail delivery, and the FastAPI handler that composes them.    *)
(*                                                                         *)
(* Python values are tagged records (PyNone, PyStr, PyNum, PyList,         *)
(* PyDict); Python strings are TLA+ strings and are taken apart character  *)
(* by character with SubSeq.  A call either returns or raises: Ret / Raise.*)
(* The timestamp fields that responses and records carry (readings of     *)
(* datetime.utcnow()) are left out; the clock enters only where text is    *)
(* rendered from it, in the fallback body.                                 *)
(***************************************************************************)
EXTENDS Integers, Sequences, FiniteSets, TLC

VARIABLES
    webhook_secret,   \* GitHubWebhookHandler.webhook_secret (os.getenv result)
    request,          \* the webhook request being handled: body and headers
    verified,         \* outcome of the last verify_signature call
    handled,          \* the last run of handle_webhook: steps reached, number of tasks added
    responses,        \* the HTTP response of each webhook request, in order of handling
    tasks,            \* the background tasks added so far, each with its position
    running,          \* the task that holds the event loop, 0 if none does
    gen,              \* a call of generate_pr_email_content: its arguments and result
    agent,            \* the AIEmailAgent instance: the configuration its methods read
    delivery,         \* the last call of send_email: its arguments and result
    smtp,             \* calls of send_email so far, mail sessions opened and closed by them
    manual,           \* the last request to the manual trigger endpoint and its response
    extraction,       \* a call of extract_pr_data: the parsed payload and the result
    startup,          \* the environment at process start and the outcome of AIEmailAgent()
    status,           \* a request to the status endpoint: the environment and the response
    pipeline,         \* the last run of a mail path: webhook task, manual request, self-test
    store,            \* the tasks table: its rows by id and the last id the sequence gave
    reply             \* the last request to the task endpoints and its response

\* what the mail side of the program reads and writes
mailvars == <<agent, delivery, smtp, manual>>

\* what the task endpoints read and write
taskvars == <<store, reply>>

\* what the pure operations, the status endpoint and the other endpoints write
sidevars == <<extraction, startup, status, pipeline, taskvars>>

vars == <<webhook_secret, request, verified, handled, responses, tasks, running, gen,
          agent, delivery, smtp, manual, extraction, startup, status, pipeline, store, reply>>

(***************************************************************************)
(* Python values and call outcomes                                         *)
(***************************************************************************)
PyNone == [t |-> "none"]
PyStr(s) == [t |-> "str", s |-> s]
PyNum(n) == [t |-> "num", n |-> n]
PyList(a) == [t |-> "list", a |-> a]
PyDict(o) == [t |-> "dict", o |-> o]
EmptyDict == [t |-> "dict", o |-> <<>>]

IsNone(v) == v.t = "none"
IsStr(v) == v.t = "str"
IsDict(v) == v.t = "dict"

\* bool(v): None, '', 0, [] and {} are falsy
Truthy(v) ==
    CASE v.t = "none" -> FALSE
      [] v.t = "str" -> v.s # ""
      [] v.t = "num" -> v.n # 0
      [] v.t = "list" -> v.a # <<>>
      [] v.t = "dict" -> DOMAIN v.o # {}

Ret(v) == [kind |-> "return", value |-> v]
Raise(e) == [kind |-> "raise", exc |-> e]
NotCalled == [kind |-> "not_called"]

\* a statement sequence: x is evaluated once and F continues with its value
Bind(x, F(_)) == CHOOSE r \in {F(v) : v \in {x}} : TRUE

\* 1-based index of the first occurrence of the character c in s; 0 if none
StrFind(s, c) ==
    LET hits == {i \in 1..Len(s) : SubSeq(s, i, i) = c}
    IN  IF hits = {} THEN 0 ELSE CHOOSE i \in hits : \A j \in hits : i <= j

\* s.split(sep, 1) for a one-character separator: one or two parts
SplitOnce(s, sep) ==
    LET i == StrFind(s, sep)
    IN  IF i = 0 THEN <<s>>
        ELSE <<SubSeq(s, 1, i - 1), SubSeq(s, i + 1, Len(s))>>

NonAsciiChars == {"é"}

IsAscii(s) == \A i \in 1..Len(s) : SubSeq(s, i, i) \notin NonAsciiChars

\* hmac.compare_digest on two str: TypeError unless both are ASCII
compare_digest(a, b) ==
    IF IsAscii(a) /\ IsAscii(b) THEN Ret(a = b) ELSE Raise("TypeError")

(***************************************************************************)
(* Request bodies (bytes) and the secrets the deployment may configure.    *)
(* BodyInvalidUtf8 stands for the one-byte body b'\xff'; every other body  *)
(* is ASCII and is written as its text.                                    *)
(***************************************************************************)
BodyOpened == "{\"action\":\"opened\",\"pull_request\":{\"number\":42,\"title\":\"Add logging\",\"user\":{\"login\":\"alice\"},\"head\":{\"ref\":\"feature/log\"},\"base\":{\"ref\":\"main\"}}}"
BodyReopened == "{\"action\":\"reopened\",\"pull_request\":{\"number\":7,\"title\":\"Fix typo\"}}"
BodyClosed == "{\"action\":\"closed\",\"pull_request\":{\"number\":42,\"title\":\"Add logging\"}}"
BodySynchronize == "{\"action\":\"synchronize\",\"pull_request\":{\"number\":42,\"title\":\"Add logging\"}}"
BodyBare == "{\"action\":\"opened\"}"
BodyPing == "{\"zen\":\"Keep it logically awesome.\"}"
BodyArray == "[]"
BodyTruncated == "{\"action\":"
BodyEmpty == ""
BodyInvalidUtf8 == "\\xff"

Bodies == {BodyOpened, BodyReopened, BodyClosed, BodySynchronize, BodyBare, BodyPing, BodyArray,
           BodyTruncated, BodyEmpty, BodyInvalidUtf8}

SecretA == "s3cr3t"
SecretB == "other"

\* os.getenv("GITHUB_WEBHOOK_SECRET"): unset, set to '', or set to a secret
Secrets == {PyNone, PyStr(""), PyStr(SecretA), PyStr(SecretB)}

\* hmac.new(secret.encode('utf-8'), payload_body, hashlib.sha256).hexdigest():
\* the values Python computes for the secrets and bodies above, and for the
\* empty key
HmacSha256Hex(secret, body) ==
    CASE secret = SecretA /\ body = BodyOpened -> "1227ea064fbb8cc82993504eeab7f4f3c98a4f8e8ad4d901cc301b5704d3735f"
      [] secret = SecretA /\ body = BodyReopened -> "b8648c9fc0c55c8c88b99e5e24b8a2a0ac8a0e36b5a1534341e5ba1043f9d58f"
      [] secret = SecretA /\ body = BodyClosed -> "5279f226eb741b82969f739d0f57725627befae62b0f5c45206c3229ae3c3d02"
      [] secret = SecretA /\ body = BodySynchronize -> "9239c66651c74d08858b535f393bba05762fab0d7373bc482f8def74c1e97052"
      [] secret = SecretA /\ body = BodyBare -> "893b8b176c39b217756497563a1b9ba1507d371642b1edf4ee9f876b8fd74ecc"
      [] secret = SecretA /\ body = BodyPing -> "f3df422a22d5897409408ba5b9276d49ffbdbdf5d6af5070fde6b20ab6caba5b"
      [] secret = SecretA /\ body = BodyArray -> "8bc8e4c8306d78a58772d88924a0df91fae0bf496c48b087e5069f2cb16941b6"
      [] secret = SecretA /\ body = BodyTruncated -> "a8fcb8a1352127e3fdd5293a2d539c5b9465e0b8a66076390956097b75fc1d10"
      [] secret = SecretA /\ body = BodyEmpty -> "3c81cc9496e1c25250f6ccb85f697c1bb623e3480d6538ad8cb6a6648142777d"
      [] secret = SecretA /\ body = BodyInvalidUtf8 -> "35d7481d6083ed9e63c6489941b698e6f3d9f5eb6aa2335a2198e190a65f034a"
      [] secret = SecretB /\ body = BodyOpened -> "901b2ff94915b269b20b9c30ad0beba5af855d0d0155a29415d4e08cfab61851"
      [] secret = SecretB /\ body = BodyReopened -> "1f98473c2a31cb288586d764b188fe34e3ffa8a0c49ac84183942270ab387c75"
      [] secret = SecretB /\ body = BodyClosed -> "c505c63f450c3fc6c5fa297697b94d1c068596146e0b9715390b910e14c6617b"
      [] secret = SecretB /\ body = BodySynchronize -> "d6095ef1bc2daf231e7fe9f4c6d6e33783e2413ca507d98ae39946cfa45075a4"
      [] secret = SecretB /\ body = BodyBare -> "9fb31985e6f61eeb509f4aaece0044f2610cf53f568d77233fd3d9afe13bd217"
      [] secret = SecretB /\ body = BodyPing -> "35feb5a09a2920675bdb11e1e62716d2129ad4696e0e090dd95193e5d75f08a6"
      [] secret = SecretB /\ body = BodyArray -> "f1d4a06b10ab1e45962a775e252016af0df7bff0ba14a89c8b091577aa150cd0"
      [] secret = SecretB /\ body = BodyTruncated -> "a15b89d7b8d6f3e62e87125b398a595164552c583863df5e19770f88293db9c3"
      [] secret = SecretB /\ body = BodyEmpty -> "0f56482ea4cbfcfaf3234385a4a55a997f0d9de2cf95c28f22c2024efcb7bd92"
      [] secret = SecretB /\ body = BodyInvalidUtf8 -> "8b63a99ecc6244f8dcd3bf3d2cd3894a5ca959bf9f04d021415fc7ac4e0a4919"
      [] secret = "" /\ body = BodyOpened -> "ca2ef0ed99482ada4f5b9baa407baadab707ceaeba84eba05d93767fe452b984"
      [] secret = "" /\ body = BodyReopened -> "270897c8f3fdbea9c9a845fca36767c11483d7953b919a2b7a06230be969b926"
      [] secret = "" /\ body = BodyClosed -> "58da159d171cc719ce0ec93c78b5439256e6675c37d09c297d63ec6fc43fccb9"
      [] secret = "" /\ body = BodySynchronize -> "8f39a3b11c13e2c511e933d0754c705a703dba3633ea9f209d684b19e0b51f30"
      [] secret = "" /\ body = BodyBare -> "4aab9d35e38f28618f0f04ea1235324b382ff46b28f6b0543bb4e22dbbc9ba53"
      [] secret = "" /\ body = BodyPing -> "cb60fc56f8d2a73299733cd6481e0bf318f024790dc82896c41ce1f64931fdde"
      [] secret = "" /\ body = BodyArray -> "83ce13bda6523334daa14f33d1fc2adc98ff8b57c4df5be5d2f58b1c2c78fa1e"
      [] secret = "" /\ body = BodyTruncated -> "5a57413f1b9bee5adda1e28763ec695a106eb91f009ac0c5165c2273b54b9685"
      [] secret = "" /\ body = BodyEmpty -> "b613679a0814d9ec772f95d778c35fc5ff1697c493715653c6c712144292c5ad"
      [] secret = "" /\ body = BodyInvalidUtf8 -> "4985f8759521234ca18940b2ed17fadf89364a4d07c7259ca1aa42942861a61e"

(***************************************************************************)
(* GitHubWebhookHandler.verify_signature                                   *)
(***************************************************************************)
\* variant: the algorithm name is not checked
verify_signature_try_any_algorithm(secret, payload_body, signature_header) ==
    LET parts == SplitOnce(signature_header, "=")
    IN  IF Len(parts) # 2 THEN Raise("ValueError")
        ELSE compare_digest(parts[2], HmacSha256Hex(secret, payload_body))

\* the body of the try block, lines 47-62
verify_signature_try(secret, payload_body, signature_header) ==
    LET parts == SplitOnce(signature_header, "=")
    IN  IF Len(parts) # 2 THEN Raise("ValueError")   \* unpacking one value into two names
        ELSE IF parts[1] # "sha256" THEN Ret(FALSE)
        ELSE compare_digest(parts[2], HmacSha256Hex(secret, payload_body))

\* variant: only an unset secret disables the check, an empty one does not
verify_signature_secret_is_none(secret, payload_body, signature_header) ==
    IF IsNone(secret) THEN Ret(TRUE)
    ELSE IF signature_header = "" THEN Ret(FALSE)
    ELSE LET r == verify_signature_try(secret.s, payload_body, signature_header)
         IN  IF r.kind = "raise" THEN Ret(FALSE) ELSE r

\* variant: no except clause, an exception of the try block propagates
verify_signature_no_except(secret, payload_body, signature_header) ==
    IF ~Truthy(secret) THEN Ret(TRUE)
    ELSE IF signature_header = "" THEN Ret(FALSE)
    ELSE verify_signature_try(secret.s, payload_body, signature_header)

verify_signature(secret, payload_body, signature_header) ==
    IF ~Truthy(secret) THEN Ret(TRUE)
    ELSE IF signature_header = "" THEN Ret(FALSE)
    ELSE LET r == verify_signature_try(secret.s, payload_body, signature_header)
         IN  IF r.kind = "raise" THEN Ret(FALSE) ELSE r   \* except Exception: return False

(***************************************************************************)
(* Requests.  A header that the request does not carry is PyNone;          *)
(* request.headers.get(name, '') turns it into the empty string.           *)
(***************************************************************************)
HeadersGet(v, default) == IF IsNone(v) THEN default ELSE v.s

NoRequest == [body |-> "", signature |-> PyNone, event |-> PyNone, none |-> TRUE]
Request(b, sig, ev) == [body |-> b, signature |-> sig, event |-> ev, none |-> FALSE]

(***************************************************************************)
(* payload_body.decode('utf-8') and json.loads on the bodies above          *)
(***************************************************************************)
Utf8Decode(body) ==
    IF body = BodyInvalidUtf8 THEN Raise("UnicodeDecodeError") ELSE Ret(body)

JsonLoadsBody(text) ==
    CASE text = BodyOpened ->
            Ret(PyDict([action |-> PyStr("opened"),
                        pull_request |-> PyDict([number |-> PyNum(42),
                                                 title |-> PyStr("Add logging"),
                                                 user |-> PyDict([login |-> PyStr("alice")]),
                                                 head |-> PyDict([ref |-> PyStr("feature/log")]),
                                                 base |-> PyDict([ref |-> PyStr("main")])])]))
      [] text = BodyReopened ->
            Ret(PyDict([action |-> PyStr("reopened"),
                        pull_request |-> PyDict([number |-> PyNum(7),
                                                 title |-> PyStr("Fix typo")])]))
      [] text = BodyClosed ->
            Ret(PyDict([action |-> PyStr("closed"),
                        pull_request |-> PyDict([number |-> PyNum(42),
                                                 title |-> PyStr("Add logging")])]))
      [] text = BodySynchronize ->
            Ret(PyDict([action |-> PyStr("synchronize"),
                        pull_request |-> PyDict([number |-> PyNum(42),
                                                 title |-> PyStr("Add logging")])]))
      [] text = BodyBare -> Ret(PyDict([action |-> PyStr("opened")]))
      [] text = BodyPing -> Ret(PyDict([zen |-> PyStr("Keep it logically awesome.")]))
      [] text = BodyArray -> Ret(PyList(<<>>))
      [] text = BodyTruncated -> Raise("JSONDecodeError")
      [] text = BodyEmpty -> Raise("JSONDecodeError")

(***************************************************************************)
(* GitHubWebhookHandler.extract_pr_data                                    *)
(***************************************************************************)
\* d.get(k, default) on a dict d
DictGet(d, k, default) == IF k \in DOMAIN d.o THEN d.o[k] ELSE default

\* variant: the action is not looked at, every pull_request payload yields a record
extract_pr_data_try_any_action(webhook_payload) ==
    IF ~IsDict(webhook_payload) THEN Raise("AttributeError")
    ELSE
    LET pr == DictGet(webhook_payload, "pull_request", EmptyDict)
    IN  IF ~IsDict(pr) THEN Raise("AttributeError")
        ELSE Ret(PyDict(
            [title |-> DictGet(pr, "title", PyStr("Untitled PR")),
             number |-> DictGet(pr, "number", PyNone),
             action |-> DictGet(webhook_payload, "action", PyNone),
             files_changed |-> PyList(<<>>),
             event_type |-> PyStr("pull_request")]))

\* variant: the source branch is read from base and the target branch from head
extract_pr_data_try_branches_swapped(webhook_payload) ==
    IF ~IsDict(webhook_payload) THEN Raise("AttributeError")
    ELSE
    LET action == DictGet(webhook_payload, "action", PyNone)
    IN  IF ~(IsStr(action) /\ action.s \in {"opened", "reopened"}) THEN Ret(PyNone)
        ELSE
        LET pr == DictGet(webhook_payload, "pull_request", EmptyDict)
            repository == DictGet(webhook_payload, "repository", EmptyDict)
        IN  IF ~IsDict(pr) \/ ~IsDict(repository) THEN Raise("AttributeError")
            ELSE
            LET user == DictGet(pr, "user", EmptyDict)
                head == DictGet(pr, "head", EmptyDict)
                base == DictGet(pr, "base", EmptyDict)
            IN  IF ~IsDict(user) \/ ~IsDict(head) \/ ~IsDict(base)
                THEN Raise("AttributeError")
                ELSE Ret(PyDict(
                    [title |-> DictGet(pr, "title", PyStr("Untitled PR")),
                     number |-> DictGet(pr, "number", PyNone),
                     author |-> DictGet(user, "login", PyStr("Unknown")),
                     url |-> DictGet(pr, "html_url", PyStr("")),
                     description |-> DictGet(pr, "body", PyStr("No description provided")),
                     branch_from |-> DictGet(base, "ref", PyStr("unknown-branch")),
                     branch_to |-> DictGet(head, "ref", PyStr("main")),
                     repository_name |-> DictGet(repository, "name", PyStr("Unknown Repository")),
                     repository_url |-> DictGet(repository, "html_url", PyStr("")),
                     created_at |-> DictGet(pr, "created_at", PyNone),
                     updated_at |-> DictGet(pr, "updated_at", PyNone),
                     action |-> action,
                     files_changed |-> PyList(<<>>),
                     event_type |-> PyStr("pull_request")]))

\* variant: files_changed is copied from the pull request when it carries one
extract_pr_data_try_files_copied(webhook_payload) ==
    IF ~IsDict(webhook_payload) THEN Raise("AttributeError")
    ELSE
    LET action == DictGet(webhook_payload, "action", PyNone)
    IN  IF ~(IsStr(action) /\ action.s \in {"opened", "reopened"}) THEN Ret(PyNone)
        ELSE
        LET pr == DictGet(webhook_payload, "pull_request", EmptyDict)
            repository == DictGet(webhook_payload, "repository", EmptyDict)
        IN  IF ~IsDict(pr) \/ ~IsDict(repository) THEN Raise("AttributeError")
            ELSE
            LET user == DictGet(pr, "user", EmptyDict)
                head == DictGet(pr, "head", EmptyDict)
                base == DictGet(pr, "base", EmptyDict)
            IN  IF ~IsDict(user) \/ ~IsDict(head) \/ ~IsDict(base)
                THEN Raise("AttributeError")
                ELSE Ret(PyDict(
                    [title |-> DictGet(pr, "title", PyStr("Untitled PR")),
                     number |-> DictGet(pr, "number", PyNone),
                     author |-> DictGet(user, "login", PyStr("Unknown")),
                     url |-> DictGet(pr, "html_url", PyStr("")),
                     description |-> DictGet(pr, "body", PyStr("No description provided")),
                     branch_from |-> DictGet(head, "ref", PyStr("unknown-branch")),
                     branch_to |-> DictGet(base, "ref", PyStr("main")),
                     repository_name |-> DictGet(repository, "name", PyStr("Unknown Repository")),
                     repository_url |-> DictGet(repository, "html_url", PyStr("")),
                     created_at |-> DictGet(pr, "created_at", PyNone),
                     updated_at |-> DictGet(pr, "updated_at", PyNone),
                     action |-> action,
                     files_changed |-> DictGet(pr, "files_changed", PyList(<<>>)),
                     event_type |-> PyStr("pull_request")]))

\* the body of the try block, lines 79-109; x.get on anything but a dict is an
\* AttributeError.  webhook_timestamp, a clock reading no step consumes, is left out.
extract_pr_data_try(webhook_payload) ==
    IF ~IsDict(webhook_payload) THEN Raise("AttributeError")
    ELSE
    LET action == DictGet(webhook_payload, "action", PyNone)
    IN  IF ~(IsStr(action) /\ action.s \in {"opened", "reopened"}) THEN Ret(PyNone)
        ELSE
        LET pr == DictGet(webhook_payload, "pull_request", EmptyDict)
            repository == DictGet(webhook_payload, "repository", EmptyDict)
        IN  IF ~IsDict(pr) \/ ~IsDict(repository) THEN Raise("AttributeError")
            ELSE
            LET user == DictGet(pr, "user", EmptyDict)
                head == DictGet(pr, "head", EmptyDict)
                base == DictGet(pr, "base", EmptyDict)
            IN  IF ~IsDict(user) \/ ~IsDict(head) \/ ~IsDict(base)
                THEN Raise("AttributeError")
                ELSE Ret(PyDict(
                    [title |-> DictGet(pr, "title", PyStr("Untitled PR")),
                     number |-> DictGet(pr, "number", PyNone),
                     author |-> DictGet(user, "login", PyStr("Unknown")),
                     url |-> DictGet(pr, "html_url", PyStr("")),
                     description |-> DictGet(pr, "body", PyStr("No description provided")),
                     branch_from |-> DictGet(head, "ref", PyStr("unknown-branch")),
                     branch_to |-> DictGet(base, "ref", PyStr("main")),
                     repository_name |-> DictGet(repository, "name", PyStr("Unknown Repository")),
                     repository_url |-> DictGet(repository, "html_url", PyStr("")),
                     created_at |-> DictGet(pr, "created_at", PyNone),
                     updated_at |-> DictGet(pr, "updated_at", PyNone),
                     action |-> action,
                     files_changed |-> PyList(<<>>),
                     event_type |-> PyStr("pull_request")]))

\* variant: no except clause, an exception of the try block propagates
extract_pr_data_no_except(webhook_payload) ==
    extract_pr_data_try(webhook_payload)

\* the outcome of the call: what it returns, or what it raises
extract_pr_data(webhook_payload) ==
    LET r == extract_pr_data_try(webhook_payload)
    IN  IF r.kind = "raise" THEN Ret(PyNone) ELSE r   \* except Exception: return None

(***************************************************************************)
(* GitHubWebhookHandler.handle_webhook.  A run of the handler yields the   *)
(* dict it returns or the HTTPException it raises, the steps it reached,   *)
(* the outcome of verify_signature, and the background tasks it added.     *)
(***************************************************************************)
HTTPException(code, detail) == Raise([status_code |-> code, detail |-> detail])

Handled(outcome, steps, v, background) ==
    [outcome |-> outcome, steps |-> steps, verified |-> v, background |-> background]

\* variant: the record is acknowledged but no background task is added
dispatch_no_task(event_type, webhook_payload, steps, v) ==
    IF event_type = "pull_request"
    THEN LET extracted == extract_pr_data(webhook_payload)
             pr_data == extracted.value
         IN  IF extracted.kind = "raise"
             THEN \* falls to except Exception, line 186
                  Handled(HTTPException(500, "Internal server error"),
                          steps \o <<"extract_pr_data">>, v, <<>>)
             ELSE IF Truthy(pr_data)
             THEN Handled(Ret([status |-> "success",
                               message |-> "PR notification queued for processing",
                               pr_number |-> pr_data.o.number,
                               pr_title |-> pr_data.o.title]),
                          steps \o <<"extract_pr_data">>, v, <<>>)
             ELSE Handled(Ret([status |-> "ignored",
                               message |-> "PR event not relevant for notification"]),
                          steps \o <<"extract_pr_data">>, v, <<>>)
    ELSE IF event_type = "ping"
    THEN Handled(Ret([status |-> "success", message |-> "Webhook endpoint is working"]),
                 steps, v, <<>>)
    ELSE Handled(Ret([status |-> "ignored",
                      message |-> "Event type " \o event_type \o " not handled"]),
                 steps, v, <<>>)

\* variant: no branch for ping, which falls to the branch of unhandled events
dispatch_no_ping(event_type, webhook_payload, steps, v) ==
    IF event_type = "pull_request"
    THEN LET extracted == extract_pr_data(webhook_payload)
             pr_data == extracted.value
         IN  IF extracted.kind = "raise"
             THEN \* falls to except Exception, line 186
                  Handled(HTTPException(500, "Internal server error"),
                          steps \o <<"extract_pr_data">>, v, <<>>)
             ELSE IF Truthy(pr_data)
             THEN Handled(Ret([status |-> "success",
                               message |-> "PR notification queued for processing",
                               pr_number |-> pr_data.o.number,
                               pr_title |-> pr_data.o.title]),
                          steps \o <<"extract_pr_data", "add_task">>, v, <<pr_data>>)
             ELSE Handled(Ret([status |-> "ignored",
                               message |-> "PR event not relevant for notification"]),
                          steps \o <<"extract_pr_data">>, v, <<>>)
    ELSE Handled(Ret([status |-> "ignored",
                      message |-> "Event type " \o event_type \o " not handled"]),
                 steps, v, <<>>)

\* variant: every event type but ping is handled as a pull_request event
dispatch_any_event(event_type, webhook_payload, steps, v) ==
    IF event_type # "ping"
    THEN LET extracted == extract_pr_data(webhook_payload)
             pr_data == extracted.value
         IN  IF extracted.kind = "raise"
             THEN \* falls to except Exception, line 186
                  Handled(HTTPException(500, "Internal server error"),
                          steps \o <<"extract_pr_data">>, v, <<>>)
             ELSE IF Truthy(pr_data)
             THEN Handled(Ret([status |-> "success",
                               message |-> "PR notification queued for processing",
                               pr_number |-> pr_data.o.number,
                               pr_title |-> pr_data.o.title]),
                          steps \o <<"extract_pr_data", "add_task">>, v, <<pr_data>>)
             ELSE Handled(Ret([status |-> "ignored",
                               message |-> "PR event not relevant for notification"]),
                          steps \o <<"extract_pr_data">>, v, <<>>)
    ELSE IF event_type = "ping"
    THEN Handled(Ret([status |-> "success", message |-> "Webhook endpoint is working"]),
                 steps, v, <<>>)
    ELSE Handled(Ret([status |-> "ignored",
                      message |-> "Event type " \o event_type \o " not handled"]),
                 steps, v, <<>>)

\* lines 146-182: dispatch on the event type of a parsed payload
dispatch(event_type, webhook_payload, steps, v) ==
    IF event_type = "pull_request"
    THEN LET extracted == extract_pr_data(webhook_payload)
             pr_data == extracted.value
         IN  IF extracted.kind = "raise"
             THEN \* falls to except Exception, line 186
                  Handled(HTTPException(500, "Internal server error"),
                          steps \o <<"extract_pr_data">>, v, <<>>)
             ELSE IF Truthy(pr_data)
             THEN Handled(Ret([status |-> "success",
                               message |-> "PR notification queued for processing",
                               pr_number |-> pr_data.o.number,
                               pr_title |-> pr_data.o.title]),
                          steps \o <<"extract_pr_data", "add_task">>, v, <<pr_data>>)
             ELSE Handled(Ret([status |-> "ignored",
                               message |-> "PR event not relevant for notification"]),
                          steps \o <<"extract_pr_data">>, v, <<>>)
    ELSE IF event_type = "ping"
    THEN Handled(Ret([status |-> "success", message |-> "Webhook endpoint is working"]),
                 steps, v, <<>>)
    ELSE Handled(Ret([status |-> "ignored",
                      message |-> "Event type " \o event_type \o " not handled"]),
                 steps, v, <<>>)

\* variant: no `except HTTPException: raise`, the 400 falls to except Exception
parse_and_dispatch_no_reraise(payload_body, event_type, steps, v) ==
    LET text == Utf8Decode(payload_body)
    IN  IF text.kind = "raise"
        THEN \* not a JSONDecodeError: falls to except Exception, line 186
             Handled(HTTPException(500, "Internal server error"),
                     steps \o <<"json.loads">>, v, <<>>)
        ELSE LET parsed == JsonLoadsBody(text.value)
             IN  IF parsed.kind = "raise"
                 THEN Handled(HTTPException(500, "Internal server error"),
                              steps \o <<"json.loads">>, v, <<>>)
                 ELSE dispatch(event_type, parsed.value,
                               steps \o <<"json.loads", "dispatch">>, v)

\* lines 139-144 and 186-188: decode and parse the body, then dispatch
parse_and_dispatch(payload_body, event_type, steps, v) ==
    LET text == Utf8Decode(payload_body)
    IN  IF text.kind = "raise"
        THEN \* not a JSONDecodeError: falls to except Exception, line 186
             Handled(HTTPException(500, "Internal server error"),
                     steps \o <<"json.loads">>, v, <<>>)
        ELSE LET parsed == JsonLoadsBody(text.value)
             IN  IF parsed.kind = "raise"
                 THEN Handled(HTTPException(400, "Invalid JSON payload"),
                              steps \o <<"json.loads">>, v, <<>>)
                 ELSE dispatch(event_type, parsed.value,
                               steps \o <<"json.loads", "dispatch">>, v)

\* variant: the verdict of verify_signature is logged but does not stop the request
handle_webhook_verdict_ignored(secret, req) ==
    LET payload_body == req.body
        signature_header == HeadersGet(req.signature, "")
        event_type == HeadersGet(req.event, "")
        v == verify_signature(secret, payload_body, signature_header)
    IN  parse_and_dispatch(payload_body, event_type, <<"verify_signature">>, v)

handle_webhook(secret, req) ==
    LET payload_body == req.body
        signature_header == HeadersGet(req.signature, "")
        event_type == HeadersGet(req.event, "")
        v == verify_signature(secret, payload_body, signature_header)
    IN  IF v.kind = "raise"
        THEN Handled(HTTPException(500, "Internal server error"),
                     <<"verify_signature">>, v, <<>>)
        ELSE IF ~v.value
        THEN Handled(HTTPException(403, "Invalid signature"),
                     <<"verify_signature">>, v, <<>>)
        ELSE parse_and_dispatch(payload_body, event_type, <<"verify_signature">>, v)

(***************************************************************************)
(* AIEmailAgent: configuration read at construction (lines 42-52)          *)
(***************************************************************************)
DefaultConfig ==
    [project_name |-> "Agentic CI/CD Task Manager",
     project_owner |-> "Project Owner",
     owner_email |-> PyStr("owner@example.com"),
     from_email |-> PyStr("bot@example.com"),
     email_username |-> PyStr("bot@example.com"),
     email_password |-> PyStr("app-password")]

\* no send_email call made yet, no mail session opened
NoSessions == [calls |-> 0, opened |-> 0, closed |-> 0]

\* the tasks table as create_all leaves it, and no request to the task endpoints
InitStore ==
    /\ store = [rows |-> <<>>, seq |-> 0]
    /\ reply = NotCalled

\* the global instance as constructed, before any of its methods has run
\* no extraction, no construction and no status request has happened
InitSide ==
    /\ extraction = NotCalled
    /\ startup = NotCalled
    /\ status = NotCalled
    /\ pipeline = NotCalled
    /\ InitStore

InitAgent ==
    /\ agent = DefaultConfig
    /\ delivery = NotCalled
    /\ smtp = NoSessions
    /\ manual = NotCalled

(***************************************************************************)
(* Formatting: str(v) as an f-string renders it                            *)
(***************************************************************************)
Digits == <<"0", "1", "2", "3", "4", "5", "6", "7", "8", "9">>

RECURSIVE Decimal(_)
Decimal(n) == IF n < 10 THEN Digits[n + 1] ELSE Decimal(n \div 10) \o Digits[(n % 10) + 1]

PyFormat(v) ==
    CASE v.t = "str" -> v.s
      [] v.t = "num" -> IF v.n < 0 THEN "-" \o Decimal(0 - v.n) ELSE Decimal(v.n)
      [] v.t = "none" -> "None"
      [] v.t = "list" /\ v.a = <<>> -> "[]"
      [] v.t = "dict" /\ DOMAIN v.o = {} -> "{}"

(***************************************************************************)
(* AIEmailAgent._generate_fallback_email.  now is the clock reading        *)
(* datetime.utcnow().strftime(...).  The body keeps the template's text    *)
(* and the order of its fields; indentation and inline styles are dropped. *)
(***************************************************************************)
\* The template's pictographs lie outside what a TLA+ string can hold; each is
\* written as its Python escape.
Bell == "\\U0001f514"
Rocket == "\\U0001f680"
Clipboard == "\\U0001f4cb"
Eyes == "\\U0001f440"

\* variant: the PR number is left out of the subject
fallback_subject_without_number(pr_data) ==
    Bell \o " New PR: " \o PyFormat(DictGet(pr_data, "title", PyStr("New Pull Request")))

\* line 164
fallback_subject(pr_data) ==
    Bell \o " New PR #" \o PyFormat(DictGet(pr_data, "number", PyStr("Unknown")))
        \o ": " \o PyFormat(DictGet(pr_data, "title", PyStr("New Pull Request")))

_generate_fallback_email(cfg, pr_data, now) ==
    LET pr_title == PyFormat(DictGet(pr_data, "title", PyStr("New Pull Request")))
        pr_number == PyFormat(DictGet(pr_data, "number", PyStr("Unknown")))
        pr_author == PyFormat(DictGet(pr_data, "author", PyStr("Unknown Author")))
        pr_url == PyFormat(DictGet(pr_data, "url", PyStr("#")))
        body ==
            "<html><body><h2>" \o Rocket \o " New Pull Request Notification</h2>"
            \o "<p>Hello " \o cfg.project_owner \o ",</p>"
            \o "<p>A new pull request has been created for the <strong>"
            \o cfg.project_name \o "</strong> project:</p>"
            \o "<h3>" \o Clipboard \o " PR Details</h3><ul>"
            \o "<li><strong>Title:</strong> " \o pr_title \o "</li>"
            \o "<li><strong>PR Number:</strong> #" \o pr_number \o "</li>"
            \o "<li><strong>Author:</strong> " \o pr_author \o "</li>"
            \o "<li><strong>From:</strong> "
            \o PyFormat(DictGet(pr_data, "branch_from", PyStr("feature-branch"))) \o "</li>"
            \o "<li><strong>To:</strong> "
            \o PyFormat(DictGet(pr_data, "branch_to", PyStr("main"))) \o "</li></ul>"
            \o "<p><strong>Description:</strong><br>"
            \o PyFormat(DictGet(pr_data, "description", PyStr("No description provided")))
            \o "</p><p><a href=\"" \o pr_url \o "\">" \o Eyes \o " Review Pull Request</a></p>"
            \o "<p>Please review this pull request at your earliest convenience.</p>"
            \o "<p>Best regards,<br>AI Agent - " \o cfg.project_name \o "</p><hr>"
            \o "<p>This email was automatically generated by the AI Email Agent. "
            \o "Generated at: " \o now \o " UTC</p></body></html>"
    IN  PyDict([subject |-> PyStr(fallback_subject(pr_data)), body |-> PyStr(body)])

(***************************************************************************)
(* The generative backend.  A call raises, or returns a completion whose   *)
(* message content is None or one of these texts; json.loads of each text  *)
(* is what Python computes for it.                                         *)
(***************************************************************************)
AiTextProse == "Sure! Here is the email you asked for."
AiTextValid == "{\"subject\": \"PR #42 needs review\", \"body\": \"<p>Please review.</p>\"}"
AiTextNoBody == "{\"subject\": \"PR #42 needs review\"}"
AiTextEmpty == "{\"subject\": \"\", \"body\": \"\"}"
AiTextNulls == "{\"subject\": null, \"body\": null}"
AiTextString == "\"subject and body\""
AiTextList == "[\"subject\", \"body\"]"
AiTextNumber == "42"
AiTextNull == "null"

AiTexts == {AiTextProse, AiTextValid, AiTextNoBody, AiTextEmpty, AiTextNulls,
            AiTextString, AiTextList, AiTextNumber, AiTextNull}

AiOutcomes == {Raise("APIConnectionError"), Ret(PyNone)} \cup {Ret(PyStr(t)) : t \in AiTexts}

JsonLoadsAi(text) ==
    CASE text = AiTextProse -> Raise("JSONDecodeError")
      [] text = AiTextValid -> Ret(PyDict([subject |-> PyStr("PR #42 needs review"),
                                           body |-> PyStr("<p>Please review.</p>")]))
      [] text = AiTextNoBody -> Ret(PyDict([subject |-> PyStr("PR #42 needs review")]))
      [] text = AiTextEmpty -> Ret(PyDict([subject |-> PyStr(""), body |-> PyStr("")]))
      [] text = AiTextNulls -> Ret(PyDict([subject |-> PyNone, body |-> PyNone]))
      [] text = AiTextString -> Ret(PyStr("subject and body"))
      [] text = AiTextList -> Ret(PyList(<<PyStr("subject"), PyStr("body")>>))
      [] text = AiTextNumber -> Ret(PyNum(42))
      [] text = AiTextNull -> Ret(PyNone)

StrContains(s, sub) ==
    \E i \in 1..(Len(s) - Len(sub) + 1) : SubSeq(s, i, i + Len(sub) - 1) = sub

\* key in v: dict membership, substring of a str, element of a list; TypeError otherwise
PyIn(key, v) ==
    CASE v.t = "dict" -> Ret(key \in DOMAIN v.o)
      [] v.t = "str" -> Ret(StrContains(v.s, key))
      [] v.t = "list" -> Ret(\E i \in 1..Len(v.a) : v.a[i] = PyStr(key))
      [] OTHER -> Raise("TypeError")

(***************************************************************************)
(* AIEmailAgent.generate_pr_email_content.  ai is what the backend call of *)
(* lines 120-134 does; the result also counts the backend calls made.      *)
(***************************************************************************)
Generated(content, calls) == [content |-> content, ai_calls |-> calls]

\* lines 137-147: the response text, parsed and checked for the two keys
parse_ai_response(cfg, pr_data, ai_response, now) ==
    IF ~IsStr(ai_response) THEN Raise("TypeError")      \* json.loads(None)
    ELSE LET parsed == JsonLoadsAi(ai_response.s)
         IN  IF parsed.kind = "raise"
             THEN Ret(_generate_fallback_email(cfg, pr_data, now))
             ELSE LET has_subject == PyIn("subject", parsed.value)
                      has_body == PyIn("body", parsed.value)
                  IN  IF has_subject.kind = "raise" THEN has_subject
                      ELSE IF ~has_subject.value
                      THEN Ret(_generate_fallback_email(cfg, pr_data, now))   \* ValueError
                      ELSE IF ~has_body.value
                      THEN Ret(_generate_fallback_email(cfg, pr_data, now))   \* ValueError
                      ELSE Ret(parsed.value)

\* ', '.join(files_changed) raises on a number and on a list holding a non-str
JoinRaises(files_changed) ==
    \/ files_changed.t = "num"
    \/ /\ files_changed.t = "list"
       /\ \E i \in 1..Len(files_changed.a) : ~IsStr(files_changed.a[i])

\* variant: a response that cannot be used makes the backend be called once more
generate_pr_email_content_retrying(cfg, pr_data, ai, now) ==
    IF ai.kind = "raise"
    THEN Generated(_generate_fallback_email(cfg, pr_data, now), 1)
    ELSE LET r == parse_ai_response(cfg, pr_data, ai.value, now)
         IN  IF r.kind = "raise" \/ r.value = _generate_fallback_email(cfg, pr_data, now)
             THEN Generated(_generate_fallback_email(cfg, pr_data, now), 2)
             ELSE Generated(r.value, 1)

generate_pr_email_content(cfg, pr_data, ai, now) ==
    LET files_changed == DictGet(pr_data, "files_changed", PyList(<<>>))
    IN  IF Truthy(files_changed) /\ JoinRaises(files_changed)
        THEN \* line 102 raises before the backend is called
             Generated(_generate_fallback_email(cfg, pr_data, now), 0)
        ELSE IF ai.kind = "raise"
        THEN Generated(_generate_fallback_email(cfg, pr_data, now), 1)
        ELSE LET r == parse_ai_response(cfg, pr_data, ai.value, now)
             IN  IF r.kind = "raise"
                 THEN Generated(_generate_fallback_email(cfg, pr_data, now), 1)
                 ELSE Generated(r.value, 1)

(***************************************************************************)
(* AIEmailAgent.send_email.  fault names the step of the mail session that *)
(* raises ("none": no step does).  The result tells what the call returned *)
(* or raised, the steps of the session that completed, how many sessions   *)
(* were opened and closed, and the messages transmitted.                   *)
(***************************************************************************)
SmtpFaults == {"none", "connect", "starttls", "login", "sendmail", "quit"}

Sent(outcome, steps, opened, closed, outbox) ==
    [outcome |-> outcome, steps |-> steps, opened |-> opened, closed |-> closed,
     outbox |-> outbox]

\* lines 229-249: the message is built and carried through one mail session
send_email_session(cfg, subject, body, recipient, fault) ==
    LET mail == [from |-> cfg.from_email, to |-> recipient, subject |-> subject, body |-> body]
    IN  IF ~IsStr(body)                                          \* MIMEText(body, 'html')
        THEN Sent(Raise("AttributeError"), <<>>, 0, 0, <<>>)
        ELSE IF fault = "connect"                                \* smtplib.SMTP(...)
        THEN Sent(Raise("OSError"), <<>>, 0, 0, <<>>)
        ELSE IF fault = "starttls"
        THEN Sent(Raise("SMTPNotSupportedError"), <<"connect">>, 1, 0, <<>>)
        ELSE IF fault = "login"
        THEN Sent(Raise("SMTPAuthenticationError"), <<"connect", "starttls">>, 1, 0, <<>>)
        ELSE IF ~(IsStr(subject) \/ IsNone(subject))             \* msg.as_string()
        THEN Sent(Raise("TypeError"), <<"connect", "starttls", "login">>, 1, 0, <<>>)
        ELSE IF fault = "sendmail"
        THEN Sent(Raise("SMTPRecipientsRefused"),
                  <<"connect", "starttls", "login">>, 1, 0, <<>>)
        ELSE IF fault = "quit"                        \* the library drops the socket
        THEN Sent(Raise("SMTPServerDisconnected"),
                  <<"connect", "starttls", "login", "sendmail">>, 1, 1, <<mail>>)
        ELSE Sent(Ret(TRUE), <<"connect", "starttls", "login", "sendmail", "quit">>,
                  1, 1, <<mail>>)

\* variant: the recipient is not checked before the session is opened
send_email_try_recipient_unchecked(cfg, subject, body, to_email, fault) ==
    LET recipient == IF Truthy(to_email) THEN to_email ELSE cfg.owner_email
    IN  send_email_session(cfg, subject, body, recipient, fault)

\* the body of the try block, lines 224-249
send_email_try(cfg, subject, body, to_email, fault) ==
    LET recipient == IF Truthy(to_email) THEN to_email ELSE cfg.owner_email
    IN  IF ~Truthy(recipient) THEN Sent(Ret(FALSE), <<>>, 0, 0, <<>>)     \* lines 225-227
        ELSE send_email_session(cfg, subject, body, recipient, fault)

\* variant: no except clause, an exception of the session reaches the caller
send_email_no_except(cfg, subject, body, to_email, fault) ==
    send_email_try(cfg, subject, body, to_email, fault)

\* lines 223-253: whatever the try block raises is logged and becomes False
send_email(cfg, subject, body, to_email, fault) ==
    Bind(send_email_try(cfg, subject, body, to_email, fault),
         LAMBDA r : IF r.outcome.kind = "raise" THEN [r EXCEPT !.outcome = Ret(FALSE)] ELSE r)

(***************************************************************************)
(* AIEmailAgent.process_pr_notification: generate, then send.  The result  *)
(* also lists, in order, the calls of the agent's methods that were made.  *)
(***************************************************************************)
Processed(ret, generated, calls, sent) ==
    [ret |-> ret, content |-> generated.content, ai_calls |-> generated.ai_calls,
     calls |-> calls, steps |-> sent.steps,
     opened |-> sent.opened, closed |-> sent.closed, outbox |-> sent.outbox]

\* lines 271-282: the content is sent and the result of send_email returned
agent_send_generated(cfg, email_content, fault) ==
    IF ~IsDict(email_content.content)
    THEN \* email_content['subject'] raises TypeError, caught at line 284
         Processed(FALSE, email_content, <<"generate_pr_email_content">>,
                   Sent(Ret(FALSE), <<>>, 0, 0, <<>>))
    ELSE Bind(send_email(cfg, email_content.content.o.subject,
                         email_content.content.o.body, PyNone, fault),
              LAMBDA success :
                  IF success.outcome.kind = "raise"
                  THEN Processed(FALSE, email_content,                    \* line 284
                                 <<"generate_pr_email_content", "send_email">>, success)
                  ELSE Processed(success.outcome.value, email_content,
                                 <<"generate_pr_email_content", "send_email">>, success))

\* variant: an address in the PR data is passed to send_email as the recipient
agent_process_pr_notification_recipient_from_data(cfg, pr_data, ai, now, fault) ==
    Bind(generate_pr_email_content(cfg, pr_data, ai, now),
         LAMBDA email_content :
            agent_send_generated([cfg EXCEPT !.owner_email =
                                      DictGet(pr_data, "to_email", cfg.owner_email)],
                                 email_content, fault))

agent_process_pr_notification(cfg, pr_data, ai, now, fault) ==
    Bind(generate_pr_email_content(cfg, pr_data, ai, now),
         LAMBDA email_content : agent_send_generated(cfg, email_content, fault))

(***************************************************************************)
(* GitHubWebhookHandler.process_pr_notification: the background task.      *)
(* It returns None whatever the agent reports; the report goes to the log. *)
(***************************************************************************)
\* variant: no except clause and a failed delivery raised to the caller
handler_process_pr_notification_raising(cfg, pr_data, ai, now, fault) ==
    Bind(agent_process_pr_notification(cfg, pr_data, ai, now, fault),
         LAMBDA success :
            [outcome |-> IF success.ret THEN Ret(PyNone) ELSE Raise("RuntimeError"),
             log |-> IF success.ret THEN "sent" ELSE "failed",
             agent |-> success])

handler_process_pr_notification(cfg, pr_data, ai, now, fault) ==
    Bind(agent_process_pr_notification(cfg, pr_data, ai, now, fault),
         LAMBDA success :
            [outcome |-> Ret(PyNone),
             log |-> IF success.ret THEN "sent" ELSE "failed",
             agent |-> success])

RECURSIVE Concat(_)
Concat(parts) == IF parts = <<>> THEN "" ELSE Head(parts) \o Concat(Tail(parts))

(***************************************************************************)
(* SpecVerify: verify_signature as a pure function.  The header is any     *)
(* concatenation of at most MaxHeaderTokens pieces: the algorithm names,   *)
(* the separator, a non-ASCII character, real digests and one digest in    *)
(* upper-case hex.                                                         *)
(***************************************************************************)
MaxHeaderTokens == 3

UpperDigest == "1227EA064FBB8CC82993504EEAB7F4F3C98A4F8E8AD4D901CC301B5704D3735F"

VerifyBodies == {BodyOpened, BodyEmpty}

HeaderTokens ==
    {"sha256", "sha1", "=", "é", UpperDigest,
     HmacSha256Hex(SecretA, BodyOpened), HmacSha256Hex(SecretA, BodyEmpty),
     HmacSha256Hex(SecretB, BodyOpened)}

HeaderStrings ==
    {Concat(ts) : ts \in UNION {[1..n -> HeaderTokens] : n \in 0..MaxHeaderTokens}}

InitVerify ==
    /\ webhook_secret \in Secrets
    /\ request \in {Request(b, sig, PyNone) :
                        b \in VerifyBodies,
                        sig \in {PyNone} \cup {PyStr(h) : h \in HeaderStrings}}
    /\ verified = NotCalled
    /\ handled = NotCalled
    /\ responses = <<>>
    /\ tasks = <<>>
    /\ running = 0
    /\ gen = NotCalled
    /\ InitAgent
    /\ InitSide

\* lines 129 and 135: the header lookup and the call
VerifySignature ==
    /\ verified = NotCalled
    /\ verified' = verify_signature(webhook_secret, request.body,
                                    HeadersGet(request.signature, ""))
    /\ UNCHANGED <<webhook_secret, request, handled, responses, tasks, running, gen, mailvars, sidevars>>

NextVerify == VerifySignature

SpecVerify == InitVerify /\ [][NextVerify]_vars

\* the header GitHub sends for this body under this secret
SignedHeader(secret, body) == "sha256=" \o HmacSha256Hex(secret, body)

\* C1: with a secret configured, verify_signature returns true exactly when the
\* header is 'sha256=' followed by the lower-case hex HMAC-SHA256 of the body under
\* the secret; a header signed for another body or with another secret yields false.
C1_VerifyIffSigned ==
    (verified # NotCalled /\ Truthy(webhook_secret)) =>
        /\ verified.kind = "return"
        /\ verified.value =
              (request.signature = PyStr(SignedHeader(webhook_secret.s, request.body)))
        /\ \A s \in {SecretA, SecretB}, b \in Bodies :
              (<<s, b>> # <<webhook_secret.s, request.body>>
                 /\ request.signature = PyStr(SignedHeader(s, b)))
              => verified.value = FALSE

C1_Witness ==
    /\ Truthy(webhook_secret)
    /\ verified = Ret(TRUE)
    /\ request.signature = PyStr(SignedHeader(webhook_secret.s, request.body))

C1_WitnessOtherSecret ==
    /\ webhook_secret = PyStr(SecretA)
    /\ request.signature = PyStr(SignedHeader(SecretB, request.body))
    /\ verified = Ret(FALSE)

\* C2: with no secret configured, verify_signature returns true for every body and
\* every header value: absent, empty, another algorithm, malformed.
C2_NoSecretAlwaysTrue ==
    (verified # NotCalled /\ ~Truthy(webhook_secret)) => verified = Ret(TRUE)

C2_Witness ==
    /\ webhook_secret = PyStr("")
    /\ request.signature = PyStr("sha1=" \o HmacSha256Hex(SecretA, BodyOpened))
    /\ verified = Ret(TRUE)

\* the header has no '=', or its algorithm part is not 'sha256', or its digest part
\* holds a character compare_digest refuses
MalformedHeader(h) ==
    \/ StrFind(h, "=") = 0
    \/ SubSeq(h, 1, StrFind(h, "=") - 1) # "sha256"
    \/ ~IsAscii(SubSeq(h, StrFind(h, "=") + 1, Len(h)))

\* C3: with a secret configured, verify_signature returns false, and does not raise,
\* for an absent or empty header, for a header whose algorithm is not 'sha256'
\* whatever the digest, and for a malformed header.
C3_BadHeaderReturnsFalse ==
    (/\ verified # NotCalled
     /\ Truthy(webhook_secret)
     /\ \/ IsNone(request.signature)
        \/ request.signature.s = ""
        \/ MalformedHeader(request.signature.s))
    => verified = Ret(FALSE)

C3_Witness ==
    /\ Truthy(webhook_secret)
    /\ request.signature = PyStr("sha1=" \o HmacSha256Hex(webhook_secret.s, request.body))
    /\ verified = Ret(FALSE)
(***************************************************************************)
(* task_api.github_webhook and the HTTPException handler: the HTTP         *)
(* response FastAPI sends for a run of handle_webhook                      *)
(***************************************************************************)
github_webhook(h) ==
    IF h.outcome.kind = "return"
    THEN [status_code |-> 200, content |-> h.outcome.value]
    ELSE [status_code |-> h.outcome.exc.status_code,
          content |-> [detail |-> h.outcome.exc.detail]]

(***************************************************************************)
(* Spec: the webhook endpoint and its background tasks on one event loop.  *)
(* handle_webhook has no await after reading the body, so a run of it is   *)
(* one step.  The framework sends the response and then awaits the tasks   *)
(* added for it.  process_pr_notification is a coroutine that calls the    *)
(* blocking agent without awaiting: from its start to its end it holds the *)
(* event loop, and the two external calls are where it waits.              *)
(***************************************************************************)
MaxRequests == 2

\* a request comes unsigned or signed by the sender that holds SecretA; what
\* verify_signature makes of every other header is SpecVerify's matter
RequestSignatures(b) == {PyNone, PyStr(SignedHeader(SecretA, b))}

RequestEvents == {PyNone, PyStr("pull_request"), PyStr("ping"), PyStr("push")}

\* what the backend does to a background task, and the clock reading it sees
TaskAiOutcomes ==
    {Raise("APIConnectionError"), Ret(PyStr(AiTextValid)), Ret(PyStr(AiTextString))}

TaskClock == "2026-01-01 00:00:00"

Task(i, pr_data) ==
    [req |-> i, pr_data |-> pr_data, pc |-> "scheduled",
     ai |-> NotCalled, now |-> "", result |-> NotCalled]

\* the deployments and the requests of Spec
DeployedSecrets == {PyNone, PyStr(""), PyStr(SecretA)}

RequestBodies == Bodies \ {BodyEmpty}

Requests ==
    UNION {{Request(b, sig, ev) : sig \in RequestSignatures(b), ev \in RequestEvents} :
           b \in RequestBodies}

\* handle_webhook on every deployment and request, evaluated once
Handle == [secret \in DeployedSecrets |-> [req \in Requests |-> handle_webhook(secret, req)]]

Init ==
    /\ webhook_secret \in DeployedSecrets
    /\ request = NoRequest
    /\ verified = NotCalled
    /\ handled = NotCalled
    /\ responses = <<>>
    /\ tasks = <<>>
    /\ running = 0
    /\ gen = NotCalled
    /\ InitAgent
    /\ InitSide

\* variant: a record for which a task was added before adds no second task
WebhookRequest_deduplicating ==
    /\ running = 0
    /\ Len(responses) < MaxRequests
    /\ \E req \in Requests :
            LET h == Handle[webhook_secret][req]
                i == Len(responses) + 1
            IN  /\ request' = req
                /\ verified' = h.verified
                /\ handled' = [steps |-> h.steps, added |-> Len(h.background)]
                /\ responses' = Append(responses, [http |-> github_webhook(h), sent |-> FALSE])
                /\ tasks' = IF \E u \in 1..Len(tasks), k \in 1..Len(h.background) :
                                    tasks[u].pr_data = h.background[k]
                             THEN tasks
                             ELSE tasks \o [k \in 1..Len(h.background) |->
                                                Task(i, h.background[k])]
    /\ UNCHANGED <<webhook_secret, running, gen, mailvars, sidevars>>

\* a webhook request arrives and handle_webhook runs to its return or raise
WebhookRequest ==
    /\ running = 0
    /\ Len(responses) < MaxRequests
    /\ \E req \in Requests :
            LET h == Handle[webhook_secret][req]
                i == Len(responses) + 1
            IN  /\ request' = req
                /\ verified' = h.verified
                /\ handled' = [steps |-> h.steps, added |-> Len(h.background)]
                /\ responses' = Append(responses, [http |-> github_webhook(h), sent |-> FALSE])
                /\ tasks' = tasks \o [k \in 1..Len(h.background) |-> Task(i, h.background[k])]
    /\ UNCHANGED <<webhook_secret, running, gen, mailvars, sidevars>>

\* variant: the response is written only after the tasks added for it have ended
SendResponse_after_tasks ==
    /\ running = 0
    /\ \E i \in 1..Len(responses) :
         /\ ~responses[i].sent
         /\ \A u \in 1..Len(tasks) : tasks[u].req = i => tasks[u].pc = "done"
         /\ responses' = [responses EXCEPT ![i].sent = TRUE]
    /\ UNCHANGED <<webhook_secret, request, verified, handled, tasks, running, gen, mailvars, sidevars>>

\* the framework writes the response to the caller
SendResponse ==
    /\ running = 0
    /\ \E i \in 1..Len(responses) :
         /\ ~responses[i].sent
         /\ responses' = [responses EXCEPT ![i].sent = TRUE]
    /\ UNCHANGED <<webhook_secret, request, verified, handled, tasks, running, gen, mailvars, sidevars>>

\* whether a run with this backend outcome gets as far as opening a mail session
ReachesMailSession(pr_data, ai, now) ==
    agent_process_pr_notification(DefaultConfig, pr_data, ai, now, "starttls").opened = 1

\* what a finished task leaves: its return, its log line, the messages handed to the server
TaskResult(r) == [outcome |-> r.outcome, log |-> r.log, delivered |-> Len(r.agent.outbox)]

\* variant: the task opens the mail session at once, with the fallback content
StartTask_delivering_first ==
    /\ running = 0
    /\ \E u \in 1..Len(tasks) :
         /\ tasks[u].pc = "scheduled"
         /\ responses[tasks[u].req].sent
         /\ tasks' = [tasks EXCEPT ![u].pc = "mail_session",
                                   ![u].ai = Raise("APIConnectionError"),
                                   ![u].now = TaskClock]
         /\ running' = u
    /\ UNCHANGED <<webhook_secret, request, verified, handled, responses, gen, mailvars, sidevars>>

\* the framework awaits a task of a response it has sent; the task enters the backend call
StartTask ==
    /\ running = 0
    /\ \E u \in 1..Len(tasks) :
         /\ tasks[u].pc = "scheduled"
         /\ responses[tasks[u].req].sent
         /\ tasks' = [tasks EXCEPT ![u].pc = "ai_call"]
         /\ running' = u
    /\ UNCHANGED <<webhook_secret, request, verified, handled, responses, gen, mailvars, sidevars>>

\* the backend call returns or raises; the task goes on to the mail session, or ends
AiCompletes ==
    /\ running # 0
    /\ tasks[running].pc = "ai_call"
    /\ \E ai \in TaskAiOutcomes, now \in {TaskClock} :
         IF ReachesMailSession(tasks[running].pr_data, ai, now)
         THEN /\ tasks' = [tasks EXCEPT ![running].pc = "mail_session",
                                        ![running].ai = ai,
                                        ![running].now = now]
              /\ running' = running
         ELSE /\ tasks' = [tasks EXCEPT
                    ![running].pc = "done",
                    ![running].result = TaskResult(handler_process_pr_notification(
                        DefaultConfig, tasks[running].pr_data, ai, now, "none"))]
              /\ running' = 0
    /\ UNCHANGED <<webhook_secret, request, verified, handled, responses, gen, mailvars, sidevars>>

\* the mail session ends, with or without a fault, and the task returns
MailCompletes ==
    /\ running # 0
    /\ tasks[running].pc = "mail_session"
    /\ \E fault \in SmtpFaults :
         tasks' = [tasks EXCEPT
             ![running].pc = "done",
             ![running].ai = NotCalled,
             ![running].now = "",
             ![running].result = TaskResult(handler_process_pr_notification(
                 DefaultConfig, tasks[running].pr_data, tasks[running].ai,
                 tasks[running].now, fault))]
    /\ running' = 0
    /\ UNCHANGED <<webhook_secret, request, verified, handled, responses, gen, mailvars, sidevars>>

Next == WebhookRequest \/ SendResponse \/ StartTask \/ AiCompletes \/ MailCompletes

Spec == Init /\ [][Next]_vars

(***************************************************************************)
(* Properties of the webhook endpoint, stated on the request handled last  *)
(***************************************************************************)
Last == Len(responses)
LastHttp == responses[Last].http
TasksOf(i) == {u \in 1..Len(tasks) : tasks[u].req = i}

\* verify_signature on every deployment and request, evaluated once
Verdicts ==
    [secret \in DeployedSecrets |->
        [req \in Requests |->
            verify_signature(secret, req.body, HeadersGet(req.signature, ""))]]

\* verify_signature on the request handled last
LastVerdict ==
    IF request \in Requests
    THEN Verdicts[webhook_secret][request]
    ELSE verify_signature(webhook_secret, request.body, HeadersGet(request.signature, ""))

\* a body decoded and parsed: a value or an exception
DecodeAndParse(body) ==
    LET text == Utf8Decode(body)
    IN  IF text.kind = "raise" THEN text ELSE JsonLoadsBody(text.value)

\* the same on every body of a request, evaluated once
Parsed == [body \in Bodies |-> DecodeAndParse(body)]

\* the body of the request handled last, decoded and parsed
LastParse == Parsed[request.body]

\* extract_pr_data on every body that parses, evaluated once
Extractions ==
    [body \in {b \in Bodies : Parsed[b].kind = "return"} |-> extract_pr_data(Parsed[body].value)]

LastEvent == HeadersGet(request.event, "")

\* C4: a request that fails signature verification is answered 403 and reaches
\* neither JSON parsing nor dispatch nor extraction nor scheduling, whatever its
\* event type and body.
C4_RejectedAtBoundary ==
    (Last > 0 /\ LastVerdict = Ret(FALSE)) =>
        /\ LastHttp = [status_code |-> 403, content |-> [detail |-> "Invalid signature"]]
        /\ handled.steps = <<"verify_signature">>
        /\ handled.added = 0
        /\ TasksOf(Last) = {}

C4_Witness ==
    /\ Last > 0
    /\ LastVerdict = Ret(FALSE)
    /\ request.event = PyStr("ping")
    /\ request.body = BodyTruncated
    /\ LastHttp.status_code = 403

\* C5 as claimed: every verified request whose body does not parse as JSON, for
\* whatever reason, is answered 400 and schedules nothing.
C5_UnparseableIs400 ==
    (Last > 0 /\ LastVerdict = Ret(TRUE) /\ LastParse.kind = "raise") =>
        /\ LastHttp.status_code = 400
        /\ TasksOf(Last) = {}

\* C6 as claimed: a verified ping, whatever its body, gets the success
\* acknowledgment.
C6_PingAnyBodySucceeds ==
    (Last > 0 /\ LastVerdict = Ret(TRUE) /\ LastEvent = "ping") =>
        /\ LastHttp.status_code = 200
        /\ LastHttp.content.status = "success"

\* C6 amended: a verified ping whose body parses as JSON gets the 200 success
\* acknowledgment; a verified ping with any body reaches neither extraction nor
\* scheduling, so no generation or delivery follows from it.
C6_PingAcknowledged ==
    (Last > 0 /\ LastVerdict = Ret(TRUE) /\ LastEvent = "ping") =>
        /\ LastParse.kind = "return" =>
              LastHttp = [status_code |-> 200,
                          content |-> [status |-> "success",
                                       message |-> "Webhook endpoint is working"]]
        /\ \A k \in 1..Len(handled.steps) :
              handled.steps[k] \notin {"extract_pr_data", "add_task"}
        /\ handled.added = 0
        /\ TasksOf(Last) = {}

C6_Witness ==
    /\ Last > 0
    /\ webhook_secret = PyStr(SecretA)
    /\ LastVerdict = Ret(TRUE)
    /\ LastEvent = "ping"
    /\ request.body = BodyOpened
    /\ LastHttp.status_code = 200
    /\ LastHttp.content.status = "success"

\* the record the request handled last yields, PyNone if it yields none
LastRecord ==
    IF LastVerdict = Ret(TRUE) /\ LastParse.kind = "return" /\ LastEvent = "pull_request"
    THEN Extractions[request.body].value
    ELSE PyNone

\* C7: a verified, parseable pull_request webhook that yields a record is answered
\* 200 'success' with the record's number and title, has exactly one background
\* task, for that record, and every task that has begun belongs to a response
\* already sent.
C7_AcknowledgedThenScheduled ==
    /\ (Last > 0 /\ Truthy(LastRecord)) =>
          /\ LastHttp.status_code = 200
          /\ LastHttp.content.status = "success"
          /\ LastHttp.content.pr_number = LastRecord.o.number
          /\ LastHttp.content.pr_title = LastRecord.o.title
          /\ Cardinality(TasksOf(Last)) = 1
          /\ \A u \in TasksOf(Last) : tasks[u].pr_data = LastRecord
    /\ \A u \in 1..Len(tasks) :
          tasks[u].pc # "scheduled" => responses[tasks[u].req].sent

C7_Witness ==
    /\ Last > 0
    /\ Truthy(LastRecord)
    /\ LastHttp.content.pr_number = PyNum(42)
    /\ \E u \in TasksOf(Last) : tasks[u].pc = "mail_session"

\* C8: a response, once produced, never changes, whatever its background task does
\* later; and a background task that ends has returned None, not raised, whether
\* the mail went out, delivery failed, or a step raised.
C8_OutcomeNeverFedBack ==
    [][/\ \A i \in 1..Len(responses) : responses'[i].http = responses[i].http
       /\ \A u \in 1..Len(tasks') :
             tasks'[u].pc = "done" => tasks'[u].result.outcome = Ret(PyNone)]_vars

C8_Witness ==
    \E u \in 1..Len(tasks) :
        /\ tasks[u].pc = "done"
        /\ tasks[u].result.log = "failed"
        /\ responses[tasks[u].req].sent
        /\ responses[tasks[u].req].http.content.status = "success"

\* C9 as claimed: while a background task is inside the backend call or the mail
\* session, a further webhook request can be handled and a pending response sent.
C9_AckNeverWaits ==
    (\E u \in 1..Len(tasks) : tasks[u].pc \in {"ai_call", "mail_session"}) =>
        /\ Len(responses) < MaxRequests => ENABLED WebhookRequest
        /\ (\E i \in 1..Len(responses) : ~responses[i].sent) => ENABLED SendResponse

(***************************************************************************)
(* SpecGenerate: generate_pr_email_content as a function of the record,    *)
(* of what the backend call does, and of the clock.                        *)
(***************************************************************************)
ClockReadings == {"2026-01-01 00:00:00", "2026-01-01 00:00:01"}

\* the sample record of test_ai_generation
TestPrData ==
    PyDict([title |-> PyStr("Add user authentication system"),
            number |-> PyNum(42),
            author |-> PyStr("testdeveloper"),
            url |-> PyStr("https://github.com/example/repo/pull/42"),
            description |-> PyStr("This PR implements a comprehensive user authentication system with JWT tokens, password hashing, and session management."),
            branch_from |-> PyStr("feature/auth-system"),
            branch_to |-> PyStr("main"),
            files_changed |-> PyList(<<PyStr("auth.py"), PyStr("models.py"),
                                       PyStr("requirements.txt"), PyStr("tests/test_auth.py")>>)])

\* records the extractor yields, the empty record, and the test's sample
GenRecords ==
    {extract_pr_data(JsonLoadsBody(BodyOpened).value).value,
     extract_pr_data(JsonLoadsBody(BodyBare).value).value,
     EmptyDict,
     TestPrData}

InitGenerate ==
    /\ webhook_secret = PyNone
    /\ request = NoRequest
    /\ verified = NotCalled
    /\ handled = NotCalled
    /\ responses = <<>>
    /\ tasks = <<>>
    /\ running = 0
    /\ gen \in {[pr_data |-> r, ai |-> ai, now |-> now, out |-> NotCalled] :
                    r \in GenRecords, ai \in AiOutcomes, now \in ClockReadings}
    /\ InitAgent
    /\ InitSide

GenerateContent ==
    /\ gen.out = NotCalled
    /\ gen' = [gen EXCEPT !.out = generate_pr_email_content(DefaultConfig, gen.pr_data,
                                                            gen.ai, gen.now)]
    /\ UNCHANGED <<webhook_secret, request, verified, handled, responses, tasks, running,
                   mailvars, sidevars>>

NextGenerate == GenerateContent

SpecGenerate == InitGenerate /\ [][NextGenerate]_vars

\* C10 as claimed: whatever the backend does, the content returned is an object
\* holding a non-empty 'subject' and a non-empty 'body'.
C10_ContentUsable ==
    gen.out # NotCalled =>
        /\ IsDict(gen.out.content)
        /\ {"subject", "body"} \subseteq DOMAIN gen.out.content.o
        /\ IsStr(gen.out.content.o.subject) /\ gen.out.content.o.subject.s # ""
        /\ IsStr(gen.out.content.o.body) /\ gen.out.content.o.body.s # ""

\* the backend's text parses to a JSON object that holds both keys
HasBothKeys(text) ==
    LET parsed == JsonLoadsAi(text)
    IN  /\ parsed.kind = "return"
        /\ IsDict(parsed.value)
        /\ {"subject", "body"} \subseteq DOMAIN parsed.value.o

\* C11 as claimed: whenever the backend's text is not a JSON object holding both
\* 'subject' and 'body' (unparseable, a key missing, or a JSON string, number, null
\* or array), the content returned is exactly the fallback rendering of the record.
C11_NonObjectFallsBack ==
    (/\ gen.out # NotCalled
     /\ gen.ai.kind = "return"
     /\ IsStr(gen.ai.value)
     /\ ~HasBothKeys(gen.ai.value.s))
    => gen.out.content = _generate_fallback_email(DefaultConfig, gen.pr_data, gen.now)

\* C12 as claimed: when the backend throws, the subject generated for a record with
\* number n and title t is exactly 'New PR #n: t'; for PR #42 'Add logging' it is
\* 'New PR #42: Add logging'.
C12_FallbackSubjectExact ==
    (/\ gen.out # NotCalled
     /\ gen.ai.kind = "raise"
     /\ DictGet(gen.pr_data, "number", PyNone).t = "num"
     /\ IsStr(DictGet(gen.pr_data, "title", PyNone)))
    => /\ gen.out.content.o.subject =
             PyStr("New PR #" \o PyFormat(gen.pr_data.o.number) \o ": "
                       \o PyFormat(gen.pr_data.o.title))
       /\ (gen.pr_data.o.number = PyNum(42) /\ gen.pr_data.o.title = PyStr("Add logging"))
             => gen.out.content.o.subject = PyStr("New PR #42: Add logging")

\* C12 amended: when the backend throws, the subject generated for a record with
\* number n and title t is the bell pictograph, a space, and then 'New PR #n: t',
\* with nothing after it.
C12_FallbackSubjectWithBell ==
    (/\ gen.out # NotCalled
     /\ gen.ai.kind = "raise"
     /\ DictGet(gen.pr_data, "number", PyNone).t = "num"
     /\ IsStr(DictGet(gen.pr_data, "title", PyNone)))
    => gen.out.content.o.subject =
          PyStr(Bell \o " " \o "New PR #" \o PyFormat(gen.pr_data.o.number) \o ": "
                    \o PyFormat(gen.pr_data.o.title))

C12_Witness ==
    /\ gen.out # NotCalled
    /\ gen.ai.kind = "raise"
    /\ DictGet(gen.pr_data, "number", PyNone) = PyNum(42)
    /\ DictGet(gen.pr_data, "title", PyNone) = PyStr("Add logging")
    /\ gen.out.content.o.subject = PyStr(Bell \o " New PR #42: Add logging")

(***************************************************************************)
(* SpecSend: send_email called on the agent, any number of times up to     *)
(* MaxSends, with a subject, a body, an optional recipient, and a mail     *)
(* server that fails at any one step or at none.  The agent's owner        *)
(* address is whatever the attribute holds when the method reads it.       *)
(***************************************************************************)
MaxSends == 2

AgentConfigs ==
    {[DefaultConfig EXCEPT !.owner_email = o] :
        o \in {PyNone, PyStr(""), PyStr("owner@example.com")}}

SendSubjects == {PyStr("AI Email Agent Test"), PyNone}
SendBodies == {PyStr("<h2>AI Email Agent Test</h2>"), PyNone}
SendRecipients == {PyNone, PyStr(""), PyStr("dev@example.com")}

InitSend ==
    /\ webhook_secret = PyNone
    /\ request = NoRequest
    /\ verified = NotCalled
    /\ handled = NotCalled
    /\ responses = <<>>
    /\ tasks = <<>>
    /\ running = 0
    /\ gen = NotCalled
    /\ agent \in AgentConfigs
    /\ delivery = NotCalled
    /\ smtp = NoSessions
    /\ manual = NotCalled
    /\ InitSide

\* the sessions a call opened and closed, added to those of the calls before it
CountSessions(r) ==
    [calls |-> smtp.calls + 1,
     opened |-> smtp.opened + r.opened,
     closed |-> smtp.closed + r.closed]

SendEmail ==
    /\ smtp.calls < MaxSends
    /\ \E subject \in SendSubjects, body \in SendBodies,
          to_email \in SendRecipients, fault \in SmtpFaults :
         LET r == send_email(agent, subject, body, to_email, fault)
         IN  /\ delivery' = [subject |-> subject, body |-> body, to_email |-> to_email,
                             fault |-> fault, out |-> r]
             /\ smtp' = CountSessions(r)
    /\ UNCHANGED <<webhook_secret, request, verified, handled, responses, tasks, running,
                   gen, agent, manual, sidevars>>

NextSend == SendEmail

SpecSend == InitSend /\ [][NextSend]_vars

\* C15 as claimed: a send_email call opens at most one session and closes every
\* session it opens before it returns, so that after any sequence of calls no
\* session remains open.
C15_NoSessionLeftOpen ==
    /\ delivery # NotCalled =>
          /\ delivery.out.opened <= 1
          /\ delivery.out.closed = delivery.out.opened
    /\ smtp.opened = smtp.closed

\* the steps of a mail session that the claims name
SessionSteps == {"connect", "starttls", "login", "sendmail"}

CompletedSteps(r) == {r.steps[k] : k \in 1..Len(r.steps)}

\* C16: send_email never raises; it returns true only if connect, channel upgrade,
\* authentication and transmission all completed, and an exception at any of
\* these steps gives false.
C16_SendNeverRaises ==
    delivery # NotCalled =>
        /\ delivery.out.outcome \in {Ret(TRUE), Ret(FALSE)}
        /\ delivery.out.outcome = Ret(TRUE) =>
              /\ SessionSteps \subseteq CompletedSteps(delivery.out)
              /\ Len(delivery.out.outbox) = 1
        /\ delivery.fault \in SessionSteps => delivery.out.outcome = Ret(FALSE)

C16_Witness ==
    /\ delivery # NotCalled
    /\ delivery.fault = "login"
    /\ "starttls" \in CompletedSteps(delivery.out)
    /\ delivery.out.outcome = Ret(FALSE)

\* the recipient argument or else the owner address, as line 224 resolves it
Resolved(cfg, to_email) == IF Truthy(to_email) THEN to_email ELSE cfg.owner_email

\* C17: when neither the recipient argument nor the owner address is a non-empty
\* address, send_email returns false, opens no connection and transmits nothing.
C17_NoRecipientNoConnection ==
    (delivery # NotCalled /\ ~Truthy(Resolved(agent, delivery.to_email))) =>
        /\ delivery.out.outcome = Ret(FALSE)
        /\ delivery.out.steps = <<>>
        /\ delivery.out.opened = 0
        /\ delivery.out.outbox = <<>>

C17_Witness ==
    /\ delivery # NotCalled
    /\ agent.owner_email = PyStr("")
    /\ delivery.to_email = PyNone
    /\ IsStr(delivery.body)
    /\ delivery.fault = "none"
    /\ delivery.out.outcome = Ret(FALSE)
    /\ delivery.out.opened = 0

(***************************************************************************)
(* task_api.send_pr_notification, the manual trigger endpoint: it runs the *)
(* agent's process_pr_notification inline and answers with its result.     *)
(***************************************************************************)
\* variant: the agent's result is not looked at
send_pr_notification_result_ignored(cfg, pr_data, ai, now, fault) ==
    [run |-> agent_process_pr_notification(cfg, pr_data, ai, now, fault),
     http |-> [status_code |-> 200,
               content |-> [status |-> "success",
                            message |-> "PR notification email sent successfully"]]]

send_pr_notification(cfg, pr_data, ai, now, fault) ==
    Bind(agent_process_pr_notification(cfg, pr_data, ai, now, fault),
         LAMBDA success :
            [run |-> success,
             http |-> IF success.ret
                      THEN [status_code |-> 200,
                            content |-> [status |-> "success",
                                         message |-> "PR notification email sent successfully"]]
                      ELSE [status_code |-> 500,
                            content |-> [detail |-> "Failed to send PR notification email"]]])

(***************************************************************************)
(* SpecManual: requests to the manual trigger endpoint, up to MaxTriggers, *)
(* each with a PR-data object, a backend that raises or returns, and a     *)
(* mail server that fails at any one step or at none.                      *)
(***************************************************************************)
MaxTriggers == 2

\* PR #42 'Add logging' by alice, an empty object, and an object whose
\* files_changed is not a list
ManualRecords ==
    {PyDict([number |-> PyNum(42), title |-> PyStr("Add logging"),
             author |-> PyStr("alice"), branch_from |-> PyStr("feature/log"),
             branch_to |-> PyStr("main")]),
     EmptyDict,
     PyDict([number |-> PyNum(7), title |-> PyStr("Fix typo"), files_changed |-> PyNum(3)])}

InitManual ==
    /\ webhook_secret = PyNone
    /\ request = NoRequest
    /\ verified = NotCalled
    /\ handled = NotCalled
    /\ responses = <<>>
    /\ tasks = <<>>
    /\ running = 0
    /\ gen = NotCalled
    /\ InitAgent
    /\ InitSide

Triggers == IF manual = NotCalled THEN 0 ELSE manual.n

\* send_pr_notification of the constructed agent on every input, evaluated once
Trigger ==
    [pr_data \in ManualRecords |-> [ai \in AiOutcomes |-> [fault \in SmtpFaults |->
        send_pr_notification(DefaultConfig, pr_data, ai, TaskClock, fault)]]]

ManualTrigger ==
    /\ Triggers < MaxTriggers
    /\ agent = DefaultConfig
    /\ \E pr_data \in ManualRecords, ai \in AiOutcomes, fault \in SmtpFaults :
         LET r == Trigger[pr_data][ai][fault]
         IN  /\ manual' = [n |-> Triggers + 1, pr_data |-> pr_data, ai |-> ai,
                           now |-> TaskClock, fault |-> fault,
                           run |-> r.run, http |-> r.http]
             /\ smtp' = [calls |-> smtp.calls + Len(SelectSeq(r.run.calls,
                                        LAMBDA c : c = "send_email")),
                         opened |-> smtp.opened + r.run.opened,
                         closed |-> smtp.closed + r.run.closed]
    /\ UNCHANGED <<webhook_secret, request, verified, handled, responses, tasks, running,
                   gen, agent, delivery, sidevars>>

NextManual == ManualTrigger

SpecManual == InitManual /\ [][NextManual]_vars

\* the background task run on the inputs of the last manual request
DeferredRun ==
    handler_process_pr_notification(agent, manual.pr_data, manual.ai, manual.now,
                                    manual.fault).agent

\* C14: no step is retried: a run of the pipeline, synchronous or deferred, calls
\* the backend at most once, also when the response does not parse or lacks a key,
\* and calls send_email and opens a mail session at most once, also when delivery
\* fails.
C14_NoRetries ==
    manual # NotCalled =>
        \A run \in {manual.run, DeferredRun} :
            /\ run.ai_calls <= 1
            /\ Len(SelectSeq(run.calls, LAMBDA c : c = "send_email")) <= 1
            /\ run.opened <= 1

C14_Witness ==
    /\ manual # NotCalled
    /\ manual.ai = Ret(PyStr(AiTextNoBody))
    /\ manual.fault = "sendmail"
    /\ manual.run.ret = FALSE
    /\ manual.run.ai_calls = 1
    /\ manual.run.opened = 1

\* C18 as claimed: the synchronous path runs generation and then delivery, each
\* once and in that order, and returns true exactly when that delivery succeeded;
\* when the backend throws it attempts delivery of the templated content and
\* returns the result of that delivery.
C18_GenerateThenDeliverOnce ==
    manual # NotCalled =>
        /\ manual.run.calls = <<"generate_pr_email_content", "send_email">>
        /\ manual.run.ret \in BOOLEAN
        /\ manual.run.ret = (manual.fault = "none" /\ Len(manual.run.outbox) = 1)
        /\ manual.ai.kind = "raise" =>
              /\ manual.run.content =
                    _generate_fallback_email(agent, manual.pr_data, manual.now)
              /\ manual.run.ret = (manual.fault = "none")

\* C19: the manual trigger endpoint answers 200 exactly when the synchronous path
\* reports success, and 500 with a detail message otherwise.
C19_ManualStatus ==
    manual # NotCalled =>
        /\ manual.http.status_code \in {200, 500}
        /\ manual.http.status_code = 200 <=> manual.run.ret
        /\ manual.http.status_code = 500 =>
              /\ "detail" \in DOMAIN manual.http.content
              /\ manual.http.content.detail # ""

C19_Witness ==
    /\ manual # NotCalled
    /\ manual.ai.kind = "raise"
    /\ manual.fault = "login"
    /\ manual.http.status_code = 500

\* the payload is an object whose 'action' is 'opened' or 'reopened'
RelevantAction(payload) ==
    /\ IsDict(payload)
    /\ DictGet(payload, "action", PyNone) \in {PyStr("opened"), PyStr("reopened")}

\* C20: a payload object whose 'action' is neither 'opened' nor 'reopened' (closed,
\* synchronize, no action at all) yields no record; the verified pull_request
\* webhook that carries it is answered 200 'ignored' and schedules nothing.
C20_OtherActionsIgnored ==
    (/\ Last > 0
     /\ LastVerdict = Ret(TRUE)
     /\ LastParse.kind = "return"
     /\ LastEvent = "pull_request"
     /\ IsDict(LastParse.value)
     /\ ~RelevantAction(LastParse.value))
    => /\ Extractions[request.body] = Ret(PyNone)
       /\ LastHttp = [status_code |-> 200,
                      content |-> [status |-> "ignored",
                                   message |-> "PR event not relevant for notification"]]
       /\ handled.added = 0
       /\ TasksOf(Last) = {}

C20_Witness ==
    /\ Last > 0
    /\ webhook_secret = PyStr(SecretA)
    /\ LastVerdict = Ret(TRUE)
    /\ LastEvent = "pull_request"
    /\ request.body = BodySynchronize
    /\ LastHttp.status_code = 200
    /\ LastHttp.content.status = "ignored"

(***************************************************************************)
(* SpecExtract: one call of extract_pr_data on a parsed JSON value, and    *)
(* the dispatch of a verified pull_request webhook that carries it.  The   *)
(* values are objects whose fields and nested objects are present, absent  *)
(* or null, and the values that are not objects.                           *)
(***************************************************************************)
\* marks a key the object does not carry
Absent == [t |-> "absent"]

\* the object holding the keys of f whose value is not Absent
MkDict(f) ==
    LET ks == {k \in DOMAIN f : f[k] # Absent}
    IN  PyDict(IF ks = {} THEN <<>> ELSE [k \in ks |-> f[k]])

PullRequests ==
    {Absent, PyNone, PyList(<<>>)} \cup
    {MkDict([title |-> t, user |-> u, head |-> h, base |-> b, files_changed |-> f]) :
        t \in {Absent, PyNone, PyStr("Add logging")},
        u \in {Absent, PyNone, EmptyDict, PyDict([login |-> PyStr("alice")])},
        h \in {Absent, PyNone, PyDict([ref |-> PyStr("feature/log")])},
        b \in {Absent, PyNone, EmptyDict, PyDict([ref |-> PyStr("develop")])},
        f \in {Absent, PyList(<<PyStr("app.py")>>)}}

ParsedObjects ==
    {MkDict([action |-> a, pull_request |-> pr, repository |-> repo]) :
        a \in {Absent, PyNone, PyStr("opened"), PyStr("reopened"), PyStr("closed")},
        pr \in PullRequests,
        repo \in {Absent, PyNone, PyDict([name |-> PyStr("agentic-cicd")])}}

\* what json.loads can return: an object, an array, a string, a number, null
ParsedValues ==
    ParsedObjects \cup {PyList(<<>>), PyList(<<PyStr("opened")>>), PyStr("opened"),
                        PyNum(42), PyNone}

InitExtract ==
    /\ webhook_secret = PyNone
    /\ request = NoRequest
    /\ verified = NotCalled
    /\ handled = NotCalled
    /\ responses = <<>>
    /\ tasks = <<>>
    /\ running = 0
    /\ gen = NotCalled
    /\ InitAgent
    /\ extraction \in {[payload |-> p, out |-> NotCalled, handled |-> NotCalled,
                          http |-> NotCalled] : p \in ParsedValues}
    /\ startup = NotCalled
    /\ status = NotCalled
    /\ pipeline = NotCalled
    /\ InitStore

\* extract_pr_data(webhook_payload), and lines 146-165 of handle_webhook with the
\* response of the endpoint, for a verified request whose event type is
\* pull_request and whose body parsed to the payload
ExtractPrData ==
    /\ extraction.out = NotCalled
    /\ extraction' =
          Bind(dispatch("pull_request", extraction.payload,
                        <<"verify_signature", "json.loads", "dispatch">>, Ret(TRUE)),
               LAMBDA h : [extraction EXCEPT
                              !.out = extract_pr_data(extraction.payload),
                              !.handled = h,
                              !.http = github_webhook(h)])
    /\ UNCHANGED <<webhook_secret, request, verified, handled, responses, tasks, running,
                   gen, mailvars, startup, status, pipeline, taskvars>>

NextExtract == ExtractPrData

SpecExtract == InitExtract /\ [][NextExtract]_vars

\* the call has been made and returned a record
Extracted ==
    /\ extraction.out.kind = "return"
    /\ IsDict(extraction.out.value)

\* the value the payload holds under key k of its pull_request object (of the
\* object under `outer` within it when outer is not ""); Absent when that key
\* or an object on the way to it is absent
InputField(outer, k) ==
    LET p == extraction.payload
        pr == IF IsDict(p) /\ "pull_request" \in DOMAIN p.o THEN p.o.pull_request ELSE Absent
        enclosing == IF outer = "" THEN pr
                     ELSE IF pr # Absent /\ IsDict(pr) /\ outer \in DOMAIN pr.o
                     THEN pr.o[outer]
                     ELSE Absent
    IN  IF enclosing # Absent /\ IsDict(enclosing) /\ k \in DOMAIN enclosing.o
        THEN enclosing.o[k]
        ELSE Absent

OrDefault(v, default) == IF v = Absent THEN PyStr(default) ELSE v

\* C21: for a payload with action 'opened', the record's title, author, source
\* branch and target branch are the payload's pull_request.title, user.login,
\* head.ref and base.ref when present, and 'Untitled PR', 'Unknown',
\* 'unknown-branch' and 'main' when the field or its enclosing object is absent.
C21_FieldsOrDefaults ==
    (/\ extraction.out # NotCalled
     /\ IsDict(extraction.payload)
     /\ DictGet(extraction.payload, "action", PyNone) = PyStr("opened")
     /\ Extracted)
    => LET rec == extraction.out.value.o
       IN  /\ rec.title = OrDefault(InputField("", "title"), "Untitled PR")
           /\ rec.author = OrDefault(InputField("user", "login"), "Unknown")
           /\ rec.branch_from = OrDefault(InputField("head", "ref"), "unknown-branch")
           /\ rec.branch_to = OrDefault(InputField("base", "ref"), "main")

\* every field present and distinct, so that no two of them can be confused
C21_WitnessPresent ==
    /\ Extracted
    /\ extraction.payload.o.action = PyStr("opened")
    /\ extraction.out.value.o.title = PyStr("Add logging")
    /\ extraction.out.value.o.author = PyStr("alice")
    /\ extraction.out.value.o.branch_from = PyStr("feature/log")
    /\ extraction.out.value.o.branch_to = PyStr("develop")

\* the pull_request object absent: every default applies
C21_WitnessDefaults ==
    /\ Extracted
    /\ extraction.payload = PyDict([action |-> PyStr("opened")])
    /\ extraction.out.value.o.title = PyStr("Untitled PR")
    /\ extraction.out.value.o.author = PyStr("Unknown")
    /\ extraction.out.value.o.branch_to = PyStr("main")

\* a payload that is an object whose action is 'opened' or 'reopened'
RelevantObject ==
    /\ IsDict(extraction.payload)
    /\ DictGet(extraction.payload, "action", PyNone) \in {PyStr("opened"), PyStr("reopened")}

\* C22: every payload that is an object with action 'opened' or 'reopened' yields
\* a record, whatever else is missing, empty or null in it.
C22_IncompleteYieldsRecord ==
    (extraction.out # NotCalled /\ RelevantObject) => Extracted

\* the response for a verified pull_request webhook from which no record comes
IgnoredResponse ==
    [status_code |-> 200,
     content |-> [status |-> "ignored",
                  message |-> "PR event not relevant for notification"]]

\* C23: extract_pr_data returns for every parsed JSON value and raises for none;
\* a value for which the extraction fails (any value that is not an object among
\* them) yields no record, and a verified pull_request webhook that carries it is
\* answered 200 'ignored', with no background task.
C23_ExtractionNeverRaises ==
    extraction.out # NotCalled =>
        /\ extraction.out.kind = "return"
        /\ (~IsDict(extraction.payload) \/ ~Extracted) =>
              /\ extraction.out = Ret(PyNone)
              /\ extraction.http = IgnoredResponse
              /\ extraction.handled.background = <<>>

\* the array ['opened']: .get on a list is an AttributeError
C23_Witness ==
    /\ extraction.payload = PyList(<<PyStr("opened")>>)
    /\ extraction.out = Ret(PyNone)
    /\ extraction.http = IgnoredResponse

\* C29: every record extract_pr_data produces has an empty files_changed list,
\* whatever the payload holds.
C29_FilesChangedEmpty ==
    Extracted => extraction.out.value.o.files_changed = PyList(<<>>)

\* a record from a pull request that names a changed file
C29_Witness ==
    /\ Extracted
    /\ InputField("", "files_changed") = PyList(<<PyStr("app.py")>>)
    /\ extraction.out.value.o.files_changed = PyList(<<>>)

(***************************************************************************)
(* Further properties of the webhook endpoint (Spec)                       *)
(***************************************************************************)
\* C24: a verified, parseable webhook request whose event type is neither ping nor
\* pull_request, the empty type of an absent header included, is answered 200
\* 'ignored' naming the type, without a call of extract_pr_data and without a
\* background task.
C24_OtherEventsIgnored ==
    (/\ Last > 0
     /\ LastVerdict = Ret(TRUE)
     /\ LastParse.kind = "return"
     /\ LastEvent \notin {"ping", "pull_request"})
    => /\ LastHttp = [status_code |-> 200,
                      content |-> [status |-> "ignored",
                                   message |-> "Event type " \o LastEvent \o " not handled"]]
       /\ \A k \in 1..Len(handled.steps) :
              handled.steps[k] \notin {"extract_pr_data", "add_task"}
       /\ handled.added = 0
       /\ TasksOf(Last) = {}

\* a signed push event that carries the body of an opened pull request
C24_Witness ==
    /\ Last > 0
    /\ webhook_secret = PyStr(SecretA)
    /\ LastVerdict = Ret(TRUE)
    /\ LastEvent = "push"
    /\ request.body = BodyOpened
    /\ LastHttp.status_code = 200
    /\ LastHttp.content.status = "ignored"

\* the same without an event-type header
C24_WitnessNoHeader ==
    /\ Last > 0
    /\ LastVerdict = Ret(TRUE)
    /\ request.event = PyNone
    /\ request.body = BodyOpened
    /\ LastHttp.content = [status |-> "ignored", message |-> "Event type  not handled"]

\* the response that acknowledges a scheduled notification
Queued(i) ==
    /\ responses[i].http.status_code = 200
    /\ responses[i].http.content.message = "PR notification queued for processing"

\* C25: nothing is deduplicated.  Every acknowledged delivery has a background task
\* of its own and every other request has none, whatever was delivered before; the
\* response to a request is what handle_webhook makes of that request alone; and
\* every task that reports success handed one message to the mail server.
C25_NoDeduplication ==
    /\ \A i \in 1..Len(responses) :
          Cardinality(TasksOf(i)) = IF Queued(i) THEN 1 ELSE 0
    /\ Last > 0 => LastHttp = github_webhook(Handle[webhook_secret][request])
    /\ \A u \in 1..Len(tasks) :
          (tasks[u].pc = "done" /\ tasks[u].result.log = "sent")
              => tasks[u].result.delivered = 1

\* the same webhook delivered twice, and two notifications sent
C25_Witness ==
    /\ Len(responses) = 2
    /\ Queued(1) /\ Queued(2)
    /\ responses[1].http = responses[2].http
    /\ Len(tasks) = 2
    /\ tasks[1].pr_data = tasks[2].pr_data
    /\ \A u \in 1..2 :
          /\ tasks[u].pc = "done"
          /\ tasks[u].result.log = "sent"
          /\ tasks[u].result.delivered = 1

InternalServerError == [status_code |-> 500, content |-> [detail |-> "Internal server error"]]

\* C27: a failure of webhook handling that is neither rejection (here the body
\* that is not UTF-8) is answered 500 with the detail 'Internal server error',
\* which is the detail of every 500; a failed verification stays 403 'Invalid
\* signature' and a JSON parse error stays 400 'Invalid JSON payload'.
C27_GenericInternalError ==
    Last > 0 =>
        /\ LastHttp.status_code = 500 => LastHttp = InternalServerError
        /\ (/\ LastVerdict = Ret(TRUE)
            /\ LastParse.kind = "raise"
            /\ LastParse.exc # "JSONDecodeError") => LastHttp = InternalServerError
        /\ LastVerdict = Ret(FALSE) =>
              LastHttp = [status_code |-> 403, content |-> [detail |-> "Invalid signature"]]
        /\ (LastVerdict = Ret(TRUE) /\ LastParse = Raise("JSONDecodeError")) =>
              LastHttp = [status_code |-> 400, content |-> [detail |-> "Invalid JSON payload"]]

\* a verified request whose body is not UTF-8
C27_Witness ==
    /\ Last > 0
    /\ LastVerdict = Ret(TRUE)
    /\ LastParse = Raise("UnicodeDecodeError")
    /\ LastHttp = InternalServerError

\* a verified request whose body is not JSON, answered 400
C27_WitnessRejection ==
    /\ Last > 0
    /\ LastVerdict = Ret(TRUE)
    /\ request.body = BodyTruncated
    /\ LastHttp.status_code = 400

(***************************************************************************)
(* SpecConstruct: the module-level `ai_email_agent = AIEmailAgent()` under *)
(* every environment in which each mandatory setting is unset, empty or    *)
(* set.  An environment maps a variable name to its value, PyNone if the   *)
(* variable is unset.                                                      *)
(***************************************************************************)
\* os.getenv(name, default)
Getenv(env, name, default) == IF IsNone(env[name]) THEN default ELSE env[name]

Exception(type, message) == Raise([type |-> type, message |-> message])

\* openai.AzureOpenAI(azure_endpoint=..., api_key=..., api_version=...): with
\* api_key None the library looks for an Azure AD token in the environment and
\* raises OpenAIError when there is none either (the message is the library's,
\* without its backquotes)
AzureOpenAI(env, api_key) ==
    IF IsNone(api_key) /\ IsNone(env["AZURE_OPENAI_AD_TOKEN"])
    THEN Exception("OpenAIError",
                   "Missing credentials. Please pass one of api_key, azure_ad_token, "
                   \o "azure_ad_token_provider, or the AZURE_OPENAI_API_KEY or "
                   \o "AZURE_OPENAI_AD_TOKEN environment variables.")
    ELSE Ret("client")

IsDigits(s) ==
    /\ Len(s) > 0
    /\ \A i \in 1..Len(s) : \E d \in 1..10 : Digits[d] = SubSeq(s, i, i)

RECURSIVE ParseDecimal(_)
ParseDecimal(s) ==
    IF Len(s) = 0 THEN 0
    ELSE 10 * ParseDecimal(SubSeq(s, 1, Len(s) - 1))
         + (CHOOSE d \in 0..9 : Digits[d + 1] = SubSeq(s, Len(s), Len(s)))

\* int(s) on a str of decimal digits, and on a str that is no number
PyInt(s) ==
    IF IsDigits(s) THEN Ret(ParseDecimal(s))
    ELSE Exception("ValueError", "invalid literal for int() with base 10: '" \o s \o "'")

\* ', '.join(names)
RECURSIVE JoinComma(_)
JoinComma(names) ==
    IF names = <<>> THEN ""
    ELSE IF Len(names) = 1 THEN names[1]
    ELSE names[1] \o ", " \o JoinComma(Tail(names))

\* the keys of required_vars, in the order of the dict literal
RequiredVars == <<"AZURE_OPENAI_API_KEY", "EMAIL_USERNAME", "EMAIL_PASSWORD", "OWNER_EMAIL">>

\* lines 57-68: required_vars maps each name to the value read for it
_validate_config(required_vars) ==
    LET missing_vars == SelectSeq(RequiredVars, LAMBDA var : ~Truthy(required_vars[var]))
    IN  IF missing_vars # <<>>
        THEN Exception("ValueError",
                       "Missing required environment variables: " \o JoinComma(missing_vars))
        ELSE Ret(PyNone)

\* AIEmailAgent.__init__, lines 26-55: the agent's configuration, or the exception
\* of the first statement that raises
AIEmailAgent(env) ==
    LET subscription_key == env["AZURE_OPENAI_API_KEY"]
        openai_client == AzureOpenAI(env, subscription_key)
        smtp_port == PyInt(Getenv(env, "SMTP_PORT", PyStr("587")).s)
        email_username == env["EMAIL_USERNAME"]
        email_password == env["EMAIL_PASSWORD"]
        owner_email == env["OWNER_EMAIL"]
        validated == _validate_config(
            [var \in {RequiredVars[i] : i \in 1..Len(RequiredVars)} |->
                CASE var = "AZURE_OPENAI_API_KEY" -> env["AZURE_OPENAI_API_KEY"]
                  [] var = "EMAIL_USERNAME" -> email_username
                  [] var = "EMAIL_PASSWORD" -> email_password
                  [] var = "OWNER_EMAIL" -> owner_email])
    IN  IF openai_client.kind = "raise" THEN openai_client
        ELSE IF smtp_port.kind = "raise" THEN smtp_port
        ELSE IF validated.kind = "raise" THEN validated
        ELSE Ret([project_name |-> "Agentic CI/CD Task Manager",
                  project_owner |-> "Project Owner",
                  owner_email |-> owner_email,
                  from_email |-> email_username,
                  email_username |-> email_username,
                  email_password |-> email_password])

Settings(v) == {PyNone, PyStr(""), PyStr(v)}

Environments ==
    {[name \in {"AZURE_OPENAI_API_KEY", "AZURE_OPENAI_AD_TOKEN", "EMAIL_USERNAME",
                "EMAIL_PASSWORD", "OWNER_EMAIL", "SMTP_PORT"} |->
        CASE name = "AZURE_OPENAI_API_KEY" -> key
          [] name = "AZURE_OPENAI_AD_TOKEN" -> token
          [] name = "EMAIL_USERNAME" -> user
          [] name = "EMAIL_PASSWORD" -> password
          [] name = "OWNER_EMAIL" -> owner
          [] name = "SMTP_PORT" -> port] :
        key \in Settings("azure-key"),
        token \in {PyNone, PyStr("ad-token")},
        user \in Settings("bot@example.com"),
        password \in Settings("app-password"),
        owner \in Settings("owner@example.com"),
        port \in {PyNone, PyStr("2525"), PyStr(""), PyStr("smtp")}}

InitConstruct ==
    /\ webhook_secret = PyNone
    /\ request = NoRequest
    /\ verified = NotCalled
    /\ handled = NotCalled
    /\ responses = <<>>
    /\ tasks = <<>>
    /\ running = 0
    /\ gen = NotCalled
    /\ agent = NotCalled
    /\ delivery = NotCalled
    /\ smtp = NoSessions
    /\ manual = NotCalled
    /\ extraction = NotCalled
    /\ startup \in {[env |-> env, out |-> NotCalled] : env \in Environments}
    /\ status = NotCalled
    /\ pipeline = NotCalled
    /\ InitStore

\* line 331: the process constructs the global agent, or the import fails
Construct ==
    /\ startup.out = NotCalled
    /\ LET out == AIEmailAgent(startup.env)
       IN  /\ startup' = [startup EXCEPT !.out = out]
           /\ agent' = IF out.kind = "return" THEN out.value ELSE agent
    /\ UNCHANGED <<webhook_secret, request, verified, handled, responses, tasks, running,
                   gen, delivery, smtp, manual, extraction, status, pipeline,
                   taskvars>>

NextConstruct == Construct

SpecConstruct == InitConstruct /\ [][NextConstruct]_vars

\* the mandatory settings the environment leaves unset or empty, in the order of
\* AI key, mail username, mail password, recipient
MissingSettings ==
    SelectSeq(RequiredVars, LAMBDA var : startup.env[var] \notin {PyStr("azure-key"),
        PyStr("bot@example.com"), PyStr("app-password"), PyStr("owner@example.com")})

\* C26: with a usable SMTP port, construction aborts with an error that lists
\* exactly the mandatory settings that are unset or empty, all of them, and
\* succeeds when none is.
C26_MissingSettingsEnumerated ==
    (/\ startup.out # NotCalled
     /\ startup.env["SMTP_PORT"] \in {PyNone, PyStr("2525")})
    => IF MissingSettings = <<>>
       THEN startup.out.kind = "return"
       ELSE startup.out =
                Exception("ValueError", "Missing required environment variables: "
                                        \o JoinComma(MissingSettings))

(***************************************************************************)
(* SpecStatus: one GET /ai-email/status under every environment in which   *)
(* each secret is unset, empty, or one of two values.  The timestamp of    *)
(* the response, a clock reading, is left out.                             *)
(***************************************************************************)
\* a and b
PyAnd(a, b) == IF ~Truthy(a) THEN a ELSE b

\* variant: the configured flag of the webhook secret is the secret itself
get_ai_email_status_leaking(env) ==
    LET smtp_port == PyInt(Getenv(env, "SMTP_PORT", PyStr("587")).s)
        config_status ==
            [azure_openai_configured |-> Truthy(env["AZURE_OPENAI_API_KEY"]),
             email_configured |-> Truthy(PyAnd(env["EMAIL_USERNAME"], env["EMAIL_PASSWORD"])),
             owner_email_configured |-> Truthy(env["OWNER_EMAIL"]),
             webhook_secret_configured |-> env["GITHUB_WEBHOOK_SECRET"],
             project_name |-> Getenv(env, "PROJECT_NAME", PyStr("Agentic CI/CD Task Manager")).s,
             smtp_server |-> Getenv(env, "SMTP_SERVER", PyStr("smtp.gmail.com")).s,
             smtp_port |-> smtp_port.value,
             azure_endpoint |-> Getenv(env, "ENDPOINT_URL", PyStr("Not configured")).s,
             deployment_name |-> Getenv(env, "DEPLOYMENT_NAME", PyStr("gpt-4o")).s]
    IN  IF smtp_port.kind = "raise"
        THEN HTTPException(500, "Internal server error while checking status")
        ELSE Ret([status |-> IF /\ config_status.azure_openai_configured
                                /\ config_status.email_configured
                                /\ config_status.owner_email_configured
                             THEN "operational"
                             ELSE "configuration_incomplete",
                  configuration |-> config_status])

\* task_api.get_ai_email_status, lines 384-410: the dict it returns, or the
\* HTTPException it raises when building config_status fails
get_ai_email_status(env) ==
    LET smtp_port == PyInt(Getenv(env, "SMTP_PORT", PyStr("587")).s)
        config_status ==
            [azure_openai_configured |-> Truthy(env["AZURE_OPENAI_API_KEY"]),
             email_configured |-> Truthy(PyAnd(env["EMAIL_USERNAME"], env["EMAIL_PASSWORD"])),
             owner_email_configured |-> Truthy(env["OWNER_EMAIL"]),
             webhook_secret_configured |-> Truthy(env["GITHUB_WEBHOOK_SECRET"]),
             project_name |-> Getenv(env, "PROJECT_NAME", PyStr("Agentic CI/CD Task Manager")).s,
             smtp_server |-> Getenv(env, "SMTP_SERVER", PyStr("smtp.gmail.com")).s,
             smtp_port |-> smtp_port.value,
             azure_endpoint |-> Getenv(env, "ENDPOINT_URL", PyStr("Not configured")).s,
             deployment_name |-> Getenv(env, "DEPLOYMENT_NAME", PyStr("gpt-4o")).s]
    IN  IF smtp_port.kind = "raise"
        THEN HTTPException(500, "Internal server error while checking status")
        ELSE Ret([status |-> IF /\ config_status.azure_openai_configured
                                /\ config_status.email_configured
                                /\ config_status.owner_email_configured
                             THEN "operational"
                             ELSE "configuration_incomplete",
                  configuration |-> config_status])

\* the settings whose values are secrets
SecretSettings ==
    {"AZURE_OPENAI_API_KEY", "EMAIL_USERNAME", "EMAIL_PASSWORD", "GITHUB_WEBHOOK_SECRET"}

SecretValues == {PyNone, PyStr(""), PyStr(SecretA), PyStr(SecretB)}

StatusEnvironments ==
    {[name \in SecretSettings \cup {"OWNER_EMAIL", "PROJECT_NAME", "SMTP_SERVER", "SMTP_PORT",
                                    "ENDPOINT_URL", "DEPLOYMENT_NAME"} |->
        CASE name = "AZURE_OPENAI_API_KEY" -> key
          [] name = "EMAIL_USERNAME" -> user
          [] name = "EMAIL_PASSWORD" -> password
          [] name = "GITHUB_WEBHOOK_SECRET" -> secret
          [] name = "OWNER_EMAIL" -> owner
          [] name = "SMTP_PORT" -> port
          [] name = "ENDPOINT_URL" -> endpoint
          [] OTHER -> PyNone] :
        key \in SecretValues, user \in SecretValues, password \in SecretValues,
        secret \in SecretValues,
        owner \in {PyNone, PyStr("owner@example.com")},
        port \in {PyNone, PyStr("2525"), PyStr("smtp")},
        endpoint \in {PyNone, PyStr("https://example.openai.azure.com/")}}

InitStatus ==
    /\ webhook_secret = PyNone
    /\ request = NoRequest
    /\ verified = NotCalled
    /\ handled = NotCalled
    /\ responses = <<>>
    /\ tasks = <<>>
    /\ running = 0
    /\ gen = NotCalled
    /\ InitAgent
    /\ extraction = NotCalled
    /\ startup = NotCalled
    /\ status \in {[env |-> env, out |-> NotCalled] : env \in StatusEnvironments}
    /\ pipeline = NotCalled
    /\ InitStore

\* GET /ai-email/status
GetStatus ==
    /\ status.out = NotCalled
    /\ status' = [status EXCEPT !.out = get_ai_email_status(status.env)]
    /\ UNCHANGED <<webhook_secret, request, verified, handled, responses, tasks, running,
                   gen, mailvars, extraction, startup, pipeline, taskvars>>

NextStatus == GetStatus

SpecStatus == InitStatus /\ [][NextStatus]_vars

\* a setting is present when it is set and not empty
Present(v) == ~IsNone(v) /\ v.s # ""

\* the environments that differ from env in the values of secrets only, and in
\* the presence of none
SamePresence(env) ==
    {other \in [SecretSettings -> SecretValues] :
        \A name \in SecretSettings : Present(other[name]) <=> Present(env[name])}

\* C28: the status response is the same for every environment that has the same
\* secrets present and the same other settings, and each configured flag is the
\* presence of its group: the AI key; mail username and password; the recipient;
\* the webhook secret.
C28_StatusShowsPresenceOnly ==
    status.out # NotCalled =>
        /\ \A other \in SamePresence(status.env) :
              get_ai_email_status([name \in DOMAIN status.env |->
                                      IF name \in SecretSettings THEN other[name]
                                      ELSE status.env[name]]) = status.out
        /\ status.out.kind = "return" =>
              LET c == status.out.value.configuration
                  env == status.env
              IN  /\ c.azure_openai_configured = Present(env["AZURE_OPENAI_API_KEY"])
                  /\ c.email_configured = (/\ Present(env["EMAIL_USERNAME"])
                                           /\ Present(env["EMAIL_PASSWORD"]))
                  /\ c.owner_email_configured = Present(env["OWNER_EMAIL"])
                  /\ c.webhook_secret_configured = Present(env["GITHUB_WEBHOOK_SECRET"])

\* every secret set: the response reports four flags and no secret
C28_Witness ==
    /\ status.out.kind = "return"
    /\ \A name \in SecretSettings : status.env[name] = PyStr(SecretA)
    /\ status.out.value.status = "operational"
    /\ status.out.value.configuration.webhook_secret_configured = TRUE

(***************************************************************************)
(* SpecLive: the webhook endpoint of Spec for up to MaxLiveRequests        *)
(* requests, with the scheduling the framework provides: a response that   *)
(* is ready is written, a task whose response is written is started, and   *)
(* (the assumption on the services) a backend call and a mail session      *)
(* that have begun come to an end.  No request is ever bound to arrive.    *)
(***************************************************************************)
MaxLiveRequests == 1

WebhookRequestLive ==
    /\ Len(responses) < MaxLiveRequests
    /\ WebhookRequest

NextLive == WebhookRequestLive \/ SendResponse \/ StartTask \/ AiCompletes \/ MailCompletes

SpecLive ==
    /\ Init
    /\ [][NextLive]_vars
    /\ WF_vars(SendResponse)
    /\ WF_vars(StartTask)
    /\ WF_vars(AiCompletes)
    /\ WF_vars(MailCompletes)

\* the terminal responses: 403, 400, 500, the ping acknowledgment, 'ignored', and
\* the acknowledgment of a scheduled notification
TerminalClasses(i) ==
    LET http == responses[i].http
    IN  {c \in {"403", "400", "500", "ping", "ignored", "queued"} :
            CASE c = "403" ->
                    http = [status_code |-> 403, content |-> [detail |-> "Invalid signature"]]
              [] c = "400" ->
                    http = [status_code |-> 400, content |-> [detail |-> "Invalid JSON payload"]]
              [] c = "500" -> http = InternalServerError
              [] c = "ping" ->
                    /\ http.status_code = 200
                    /\ http.content = [status |-> "success",
                                       message |-> "Webhook endpoint is working"]
                    /\ TasksOf(i) = {}
              [] c = "ignored" ->
                    /\ http.status_code = 200
                    /\ http.content.status = "ignored"
                    /\ TasksOf(i) = {}
              [] c = "queued" ->
                    /\ Queued(i)
                    /\ http.content.status = "success"
                    /\ Cardinality(TasksOf(i)) = 1}

\* a task has ended, in Delivered or in DeliveryFailed
Ended(u) ==
    /\ Len(tasks) >= u
    /\ tasks[u].pc = "done"
    /\ tasks[u].result.log \in {"sent", "failed"}

\* C30: every request has exactly one terminal response, which never changes and
\* is eventually written to the caller; and every background task that was added
\* is never dropped and eventually ends, in Delivered or in DeliveryFailed.
C30_EveryRequestAndTaskTerminates ==
    /\ [](\A i \in 1..Len(responses) : Cardinality(TerminalClasses(i)) = 1)
    /\ [][/\ \A i \in 1..Len(responses) :
                /\ Len(responses') >= i
                /\ responses'[i].http = responses[i].http
          /\ \A u \in 1..Len(tasks) :
                /\ Len(tasks') >= u
                /\ tasks'[u].req = tasks[u].req
                /\ tasks'[u].pr_data = tasks[u].pr_data
                /\ tasks[u].pc = "done" => tasks'[u] = tasks[u]]_vars
    /\ \A i \in 1..MaxLiveRequests :
          [](Len(responses) >= i => <>(Len(responses) >= i /\ responses[i].sent))
    /\ \A u \in 1..MaxLiveRequests :
          [](Len(tasks) >= u => <>Ended(u))

\* a notification that was scheduled and has been delivered
C30_Witness ==
    /\ Len(responses) = 1
    /\ responses[1].sent
    /\ TerminalClasses(1) = {"queued"}
    /\ Ended(1)
    /\ tasks[1].result.log = "sent"

(***************************************************************************)
(* The webhook secret of the deployment (Spec)                             *)
(***************************************************************************)
\* C33: a deployment whose secret is the empty string answers every request as
\* the deployment without a secret does: the request passes verification, signed
\* or not, and is never answered 403.  Under a non-empty secret a request that
\* does not carry the signature of its body under that secret is answered 403.
C33_EmptySecretDisablesVerification ==
    Last > 0 =>
        /\ ~Truthy(webhook_secret) =>
              /\ verified = Ret(TRUE)
              /\ LastHttp.status_code # 403
              /\ LastHttp = github_webhook(Handle[PyNone][request])
        /\ (/\ Truthy(webhook_secret)
            /\ request.signature # PyStr(SignedHeader(webhook_secret.s, request.body)))
           => LastHttp.status_code = 403

\* the empty secret, and a request signed by a sender that holds SecretA
C33_Witness ==
    /\ Last > 0
    /\ webhook_secret = PyStr("")
    /\ request.signature = PyStr(SignedHeader(SecretA, request.body))
    /\ request.event = PyStr("pull_request")
    /\ request.body = BodyOpened
    /\ verified = Ret(TRUE)
    /\ LastHttp.status_code = 200

\* the empty secret, and a request without a signature
C33_WitnessUnsigned ==
    /\ Last > 0
    /\ webhook_secret = PyStr("")
    /\ request.signature = PyNone
    /\ verified = Ret(TRUE)
    /\ LastHttp.status_code = 200

(***************************************************************************)
(* The order of the webhook pipeline (Spec)                                *)
(***************************************************************************)
\* C31: a background task, the only sender of mail in the webhook path, exists only
\* for a request that passed verification, parsed, had the event type pull_request
\* and yielded a record whose action is 'opened' or 'reopened'; it is added by the
\* handling of that request and by nothing else; it enters the mail session only
\* out of the backend call, once that has returned or raised; and it has handed a
\* message to the mail server only out of the mail session.
C31_VerifiedExtractedGeneratedDelivered ==
    /\ [](\A u \in 1..Len(tasks) :
            /\ IsDict(tasks[u].pr_data)
            /\ tasks[u].pr_data.o.action \in {PyStr("opened"), PyStr("reopened")}
            /\ Queued(tasks[u].req))
    /\ [](TasksOf(Last) # {} =>
            /\ LastVerdict = Ret(TRUE)
            /\ LastParse.kind = "return"
            /\ LastEvent = "pull_request"
            /\ RelevantAction(LastParse.value)
            /\ \A u \in TasksOf(Last) : tasks[u].pr_data = Extractions[request.body].value)
    /\ [][\A u \in 1..Len(tasks') :
            /\ u > Len(tasks) =>
                  /\ Len(responses') = Len(responses) + 1
                  /\ tasks'[u].req = Len(responses')
                  /\ tasks'[u].pc = "scheduled"
            /\ tasks'[u].pc = "mail_session" =>
                  /\ u <= Len(tasks)
                  /\ tasks[u].pc \in {"ai_call", "mail_session"}
                  /\ tasks'[u].ai # NotCalled
            /\ (tasks'[u].pc = "done" /\ tasks'[u].result.delivered > 0) =>
                  /\ u <= Len(tasks)
                  /\ tasks[u].pc \in {"mail_session", "done"}]_vars

\* a reopened pull request whose notification went out
C31_Witness ==
    \E u \in 1..Len(tasks) :
        /\ tasks[u].pr_data.o.action = PyStr("reopened")
        /\ tasks[u].pc = "done"
        /\ tasks[u].result.delivered = 1
        /\ tasks[u].result.log = "sent"

(***************************************************************************)
(* AIEmailAgent.test_email_service: the self-test.  The result also lists  *)
(* the calls made and the messages transmitted; its timestamp is left out. *)
(***************************************************************************)
TestTube == "\\U0001f9ea"

\* lines 295-304
SamplePrData ==
    PyDict([title |-> PyStr("Add new feature for task analytics"),
            number |-> PyNum(42),
            author |-> PyStr("TestDeveloper"),
            url |-> PyStr("https://github.com/example/repo/pull/42"),
            description |-> PyStr("This PR adds comprehensive analytics features for task management including completion rates, time tracking, and performance metrics."),
            branch_from |-> PyStr("feature/task-analytics"),
            branch_to |-> PyStr("main"),
            files_changed |-> PyList(<<PyStr("task_api.py"), PyStr("analytics.py"),
                                       PyStr("requirements.txt")>>)])

\* email_content['subject'] where email_content is not a dict
SubscriptError(v) ==
    IF IsStr(v) THEN Exception("TypeError", "string indices must be integers, not 'str'")
    ELSE Exception("TypeError", "list indices must be integers or slices, not str")

\* variant: the subject goes out as generated
test_send_generated_unprefixed(cfg, email_content, fault) ==
    IF ~IsDict(email_content.content)
    THEN Processed(SubscriptError(email_content.content), email_content,
                   <<"generate_pr_email_content">>, Sent(Ret(FALSE), <<>>, 0, 0, <<>>))
    ELSE Bind(send_email(cfg,
                         PyStr(PyFormat(email_content.content.o.subject)),
                         PyStr("<p><strong>" \o TestTube \o " This is a test email</strong></p>"
                               \o PyFormat(email_content.content.o.body)),
                         PyNone, fault),
              LAMBDA email_sent :
                  Processed(IF email_sent.outcome.kind = "raise" THEN email_sent.outcome
                            ELSE Ret([success |-> email_sent.outcome.value,
                                      message |-> IF email_sent.outcome.value
                                                  THEN "Test email sent successfully"
                                                  ELSE "Failed to send test email",
                                      email_content |-> email_content.content]),
                            email_content,
                            <<"generate_pr_email_content", "send_email">>, email_sent))

\* lines 311-320: the prefixed subject and body are sent and the result reported
test_send_generated(cfg, email_content, fault) ==
    IF ~IsDict(email_content.content)
    THEN Processed(SubscriptError(email_content.content), email_content,
                   <<"generate_pr_email_content">>, Sent(Ret(FALSE), <<>>, 0, 0, <<>>))
    ELSE Bind(send_email(cfg,
                         PyStr("[TEST] " \o PyFormat(email_content.content.o.subject)),
                         PyStr("<p><strong>" \o TestTube \o " This is a test email</strong></p>"
                               \o PyFormat(email_content.content.o.body)),
                         PyNone, fault),
              LAMBDA email_sent :
                  Processed(IF email_sent.outcome.kind = "raise" THEN email_sent.outcome
                            ELSE Ret([success |-> email_sent.outcome.value,
                                      message |-> IF email_sent.outcome.value
                                                  THEN "Test email sent successfully"
                                                  ELSE "Failed to send test email",
                                      email_content |-> email_content.content]),
                            email_content,
                            <<"generate_pr_email_content", "send_email">>, email_sent))

\* the body of the try block, lines 306-320
test_email_service_try(cfg, ai, now, fault) ==
    Bind(generate_pr_email_content(cfg, SamplePrData, ai, now),
         LAMBDA email_content : test_send_generated(cfg, email_content, fault))

\* variant: no except clause, an exception of the try block reaches the caller
test_email_service_no_except(cfg, ai, now, fault) ==
    test_email_service_try(cfg, ai, now, fault)

\* variant: the result reports success whatever send_email returned
test_email_service_always_success(cfg, ai, now, fault) ==
    Bind(test_email_service_try(cfg, ai, now, fault),
         LAMBDA r : IF r.ret.kind = "raise"
                    THEN [r EXCEPT !.ret = Ret([success |-> FALSE,
                                                message |-> "Test failed: " \o r.ret.exc.message])]
                    ELSE [r EXCEPT !.ret = Ret([r.ret.value EXCEPT !.success = TRUE])])

\* lines 306-327: an exception of the try block becomes a result with success False
test_email_service(cfg, ai, now, fault) ==
    Bind(test_email_service_try(cfg, ai, now, fault),
         LAMBDA r : IF r.ret.kind = "raise"
                    THEN [r EXCEPT !.ret = Ret([success |-> FALSE,
                                                message |-> "Test failed: " \o r.ret.exc.message])]
                    ELSE r)

\* task_api.test_ai_email_service, POST /ai-email/test
test_ai_email_service(cfg, ai, now, fault) ==
    Bind(test_email_service(cfg, ai, now, fault),
         LAMBDA result :
            [run |-> result,
             http |-> IF result.ret.kind = "raise"
                      THEN [status_code |-> 500,
                            content |-> [detail |->
                                "Internal server error while testing email service"]]
                      ELSE [status_code |-> 200, content |-> result.ret.value]])

(***************************************************************************)
(* SpecPipeline: the three paths that send mail, each run on an agent of   *)
(* any of three configurations: a pull_request webhook whose verified and  *)
(* parsed payload carries address fields, a manual request whose PR data   *)
(* carries them, and the self-test.  pipeline holds the last run.          *)
(***************************************************************************)
Attacker == PyStr("attacker@evil.example")

\* the default configuration, one with other addresses, one with no owner address
PipelineConfigs ==
    {DefaultConfig,
     [DefaultConfig EXCEPT !.owner_email = PyStr("lead@example.org"),
                           !.from_email = PyStr("ci@example.org")],
     [DefaultConfig EXCEPT !.owner_email = PyNone]}

\* keys under which a sender of data could hope to set an address
AddressKeys == {"to_email", "owner_email", "from_email", "recipient"}

\* d with key k set to v
DictSet(d, k, v) == PyDict([x \in DOMAIN d.o \cup {k} |-> IF x = k THEN v ELSE d.o[x]])

PlainPullRequest ==
    PyDict([title |-> PyStr("Add logging"), number |-> PyNum(7),
            user |-> PyDict([login |-> PyStr("alice"), email |-> Attacker]),
            html_url |-> PyStr("https://github.com/example/repo/pull/7")])

PlainPayload == PyDict([action |-> PyStr("opened"), pull_request |-> PlainPullRequest])

\* payloads with an address field at the top or inside the pull request, one
\* whose title and login are the address, one that is not relevant
HostilePayloads ==
    {PlainPayload,
     DictSet(PlainPayload, "action", PyStr("closed")),
     DictSet(PlainPayload, "pull_request",
             PyDict([title |-> Attacker, number |-> PyNum(7),
                     user |-> PyDict([login |-> Attacker])]))}
    \cup {DictSet(PlainPayload, k, Attacker) : k \in AddressKeys}
    \cup {DictSet(PlainPayload, "pull_request", DictSet(PlainPullRequest, k, Attacker)) :
            k \in AddressKeys}

PlainRecord ==
    PyDict([number |-> PyNum(42), title |-> PyStr("Add logging"), author |-> PyStr("alice")])

HostileRecords ==
    {PlainRecord, EmptyDict, DictSet(PlainRecord, "author", Attacker)}
    \cup {DictSet(PlainRecord, k, Attacker) : k \in AddressKeys}

InitPipeline ==
    /\ webhook_secret = PyNone
    /\ request = NoRequest
    /\ verified = NotCalled
    /\ handled = NotCalled
    /\ responses = <<>>
    /\ tasks = <<>>
    /\ running = 0
    /\ gen = NotCalled
    /\ agent \in PipelineConfigs
    /\ delivery = NotCalled
    /\ smtp = NoSessions
    /\ manual = NotCalled
    /\ InitSide

\* handle_webhook past verification and parsing, then the task it queued
webhook_then_task(cfg, payload, ai, now, fault) ==
    Bind(dispatch("pull_request", payload, <<>>, Ret(TRUE)),
         LAMBDA h :
            [handled |-> h,
             task |-> IF h.background = <<>> THEN NotCalled
                      ELSE handler_process_pr_notification(cfg, h.background[1], ai,
                                                           now, fault)])

\* the three paths on every input, evaluated once
WebhookRuns ==
    [cfg \in PipelineConfigs |-> [payload \in HostilePayloads |->
        [ai \in TaskAiOutcomes |-> [fault \in SmtpFaults |->
            webhook_then_task(cfg, payload, ai, TaskClock, fault)]]]]

ManualRuns ==
    [cfg \in PipelineConfigs |-> [pr_data \in HostileRecords |->
        [ai \in TaskAiOutcomes |-> [fault \in SmtpFaults |->
            send_pr_notification(cfg, pr_data, ai, TaskClock, fault)]]]]

TestRuns ==
    [cfg \in PipelineConfigs |-> [ai \in AiOutcomes |-> [fault \in SmtpFaults |->
        test_ai_email_service(cfg, ai, TaskClock, fault)]]]

WebhookMail ==
    /\ \E payload \in HostilePayloads, ai \in TaskAiOutcomes, fault \in SmtpFaults :
         LET r == WebhookRuns[agent][payload][ai][fault]
         IN  pipeline' = [path |-> "webhook", input |-> payload, ai |-> ai, fault |-> fault,
                          out |-> r,
                          outbox |-> IF r.task = NotCalled THEN <<>>
                                     ELSE r.task.agent.outbox]
    /\ UNCHANGED <<webhook_secret, request, verified, handled, responses, tasks, running,
                   gen, mailvars, extraction, startup, status, taskvars>>

\* POST /ai-email/send-pr-notification
ManualMail ==
    /\ \E pr_data \in HostileRecords, ai \in TaskAiOutcomes, fault \in SmtpFaults :
         LET r == ManualRuns[agent][pr_data][ai][fault]
         IN  pipeline' = [path |-> "manual", input |-> pr_data, ai |-> ai, fault |-> fault,
                          out |-> r, outbox |-> r.run.outbox]
    /\ UNCHANGED <<webhook_secret, request, verified, handled, responses, tasks, running,
                   gen, mailvars, extraction, startup, status, taskvars>>

\* POST /ai-email/test
TestMail ==
    /\ \E ai \in AiOutcomes, fault \in SmtpFaults :
         LET r == TestRuns[agent][ai][fault]
         IN  pipeline' = [path |-> "test", input |-> SamplePrData, ai |-> ai, fault |-> fault,
                          out |-> r, outbox |-> r.run.outbox]
    /\ UNCHANGED <<webhook_secret, request, verified, handled, responses, tasks, running,
                   gen, mailvars, extraction, startup, status, taskvars>>

NextPipeline == WebhookMail \/ ManualMail \/ TestMail

SpecPipeline == InitPipeline /\ [][NextPipeline]_vars

\* C34: the self-test returns a result, never an exception, and the endpoint
\* answers 200 with it.  When the generated content is an object, send_email is
\* called once with the subject '[TEST] ' followed by the generated subject, no
\* further message goes out, and the result's success is true exactly when that
\* call returned True, which is when its mail session ran to the end.  When the
\* content is not an object, the exception raised on the way yields success false
\* with no message sent.
C34_SelfTestReportsDelivery ==
    (pipeline # NotCalled /\ pipeline.path = "test") =>
        LET run == pipeline.out.run
            generated == generate_pr_email_content(agent, SamplePrData, pipeline.ai, TaskClock)
        IN  /\ run.ret.kind = "return"
            /\ pipeline.out.http = [status_code |-> 200, content |-> run.ret.value]
            /\ run.content = generated.content
            /\ IsDict(generated.content) =>
                 /\ run.calls = <<"generate_pr_email_content", "send_email">>
                 /\ run.ret.value.success = (run.steps = <<"connect", "starttls", "login",
                                                           "sendmail", "quit">>)
                 /\ run.ret.value.success => Len(run.outbox) = 1
                 /\ \A i \in 1..Len(run.outbox) :
                        run.outbox[i].subject =
                            PyStr("[TEST] " \o PyFormat(generated.content.o.subject))
            /\ ~IsDict(generated.content) =>
                 /\ run.ret.value.success = FALSE
                 /\ run.outbox = <<>>

\* a self-test whose message was delivered with the prefixed subject
C34_Witness ==
    /\ pipeline # NotCalled
    /\ pipeline.path = "test"
    /\ pipeline.out.run.ret = Ret([success |-> TRUE,
                                   message |-> "Test email sent successfully",
                                   email_content |-> pipeline.out.run.content])
    /\ Len(pipeline.outbox) = 1
    /\ pipeline.outbox[1].subject = PyStr("[TEST] PR #42 needs review")

\* a self-test whose subscript of the content raised
C34_WitnessException ==
    /\ pipeline # NotCalled
    /\ pipeline.path = "test"
    /\ pipeline.ai = Ret(PyStr(AiTextList))
    /\ pipeline.out.run.ret =
          Ret([success |-> FALSE,
               message |-> "Test failed: list indices must be integers or slices, not str"])

\* a self-test whose mail session failed
C34_WitnessUndelivered ==
    /\ pipeline # NotCalled
    /\ pipeline.path = "test"
    /\ pipeline.fault = "login"
    /\ pipeline.out.run.calls = <<"generate_pr_email_content", "send_email">>
    /\ pipeline.out.run.ret.value.success = FALSE
    /\ pipeline.out.run.ret.value.message = "Failed to send test email"

\* C32: in the webhook path, the manual path and the self-test, every message
\* handed to the mail server has the agent's configured owner address as its
\* recipient and the agent's configured sender address as its sender, whatever
\* address fields the payload or the PR data carry; with no owner address
\* configured nothing is transmitted.
C32_RecipientIsConfiguredOwner ==
    pipeline # NotCalled =>
        /\ \A i \in 1..Len(pipeline.outbox) :
              /\ pipeline.outbox[i].to = agent.owner_email
              /\ pipeline.outbox[i].from = agent.from_email
        /\ ~Truthy(agent.owner_email) => pipeline.outbox = <<>>

\* the input of the last run carries the attacker's address under an address key
CarriesAddress(d) ==
    /\ IsDict(d)
    /\ \E k \in AddressKeys : k \in DOMAIN d.o /\ d.o[k] = Attacker

\* a manual request whose PR data names another recipient, delivered to the owner
\* of a configuration that is not the default one
C32_Witness ==
    /\ pipeline # NotCalled
    /\ pipeline.path = "manual"
    /\ agent.owner_email = PyStr("lead@example.org")
    /\ DictGet(pipeline.input, "to_email", PyNone) = Attacker
    /\ pipeline.out.http.status_code = 200
    /\ Len(pipeline.outbox) = 1
    /\ pipeline.outbox[1].to = PyStr("lead@example.org")
    /\ pipeline.outbox[1].from = PyStr("ci@example.org")

\* a webhook whose payload carries an address field, at the top or inside the
\* pull request, and whose notification was delivered
C32_WitnessWebhook ==
    /\ pipeline # NotCalled
    /\ pipeline.path = "webhook"
    /\ \/ CarriesAddress(pipeline.input)
       \/ CarriesAddress(pipeline.input.o.pull_request)
    /\ pipeline.out.task.log = "sent"
    /\ Len(pipeline.outbox) = 1
    /\ pipeline.outbox[1].to = agent.owner_email

\* a self-test delivered to the owner
C32_WitnessTest ==
    /\ pipeline # NotCalled
    /\ pipeline.path = "test"
    /\ Len(pipeline.outbox) = 1
    /\ pipeline.outbox[1].to = agent.owner_email
    /\ agent # DefaultConfig

(***************************************************************************)
(* task_api: the task endpoints over the tasks table.  A row is kept by    *)
(* its id with its title, its completed flag and its updated_at; the ids   *)
(* come from the table's sequence and are never given twice.  The database *)
(* executes every statement except one that would store NULL in a column   *)
(* declared NOT NULL; created_at and the timestamps of error responses are *)
(* left out.                                                               *)
(***************************************************************************)
\* str.strip() on a str whose only whitespace is the space
Strip(s) ==
    LET kept == {i \in 1..Len(s) : SubSeq(s, i, i) # " "}
    IN  IF kept = {} THEN ""
        ELSE SubSeq(s, CHOOSE i \in kept : \A j \in kept : i <= j,
                       CHOOSE i \in kept : \A j \in kept : j <= i)

\* the response the framework writes for a value returned or an exception raised
Http(code, content) == [status_code |-> code, content |-> content]

\* lines 418-425: an HTTPException becomes its status and {detail, timestamp}
http_exception_handler(code, detail) == Http(code, [detail |-> detail])

\* the framework's answer to a request that fails validation; loc names the part
RequestValidationError(loc) == Http(422, [detail |-> [loc |-> loc]])

\* what an endpoint leaves behind: its response and the table
Served(http, st) == [http |-> http, store |-> st]

\* TaskResponse of the row with this id
TaskResponse(st, id) ==
    [id |-> id, title |-> st.rows[id].title, completed |-> st.rows[id].completed,
     updated_at |-> st.rows[id].updated_at]

\* the table with the row of this id written, and with it removed
PutRow(st, id, row) ==
    [st EXCEPT !.rows = [i \in (DOMAIN st.rows) \cup {id} |->
                            IF i = id THEN row ELSE st.rows[i]]]

DropRow(st, id) ==
    [st EXCEPT !.rows = [i \in (DOMAIN st.rows) \ {id} |-> st.rows[i]]]

\* lines 164-176
get_tasks(st) ==
    Served(Http(200, [i \in DOMAIN st.rows |-> TaskResponse(st, i)]), st)

\* variant: the title is stored without the check for a blank one
create_task_blank_stored(task, st) ==
    LET id == st.seq + 1
        created == PutRow([st EXCEPT !.seq = id], id,
                          [title |-> Strip(task.title), completed |-> FALSE,
                           updated_at |-> PyNone])
    IN  Served(Http(201, TaskResponse(created, id)), created)

\* lines 178-207
create_task(task, st) ==
    IF Strip(task.title) = ""
    THEN Served(http_exception_handler(400, "Task title cannot be empty"), st)
    ELSE LET id == st.seq + 1
             created == PutRow([st EXCEPT !.seq = id], id,
                               [title |-> Strip(task.title), completed |-> FALSE,
                                updated_at |-> PyNone])
         IN  Served(Http(201, TaskResponse(created, id)), created)

\* lines 209-229
get_task(task_id, st) ==
    IF task_id \notin DOMAIN st.rows
    THEN Served(http_exception_handler(404, "Task with ID " \o Decimal(task_id)
                                            \o " not found"), st)
    ELSE Served(Http(200, TaskResponse(st, task_id)), st)

\* lines 231-266.  task holds the fields the request set (exclude_unset); a
\* field set to null makes the UPDATE fail at commit, which is rolled back.
update_task(task_id, task, now, st) ==
    IF task_id \notin DOMAIN st.rows
    THEN Served(http_exception_handler(404, "Task with ID " \o Decimal(task_id)
                                            \o " not found"), st)
    ELSE IF \E key \in DOMAIN task.o : IsNone(task.o[key])
    THEN Served(http_exception_handler(500, "Internal server error while updating task"),
                st)
    ELSE LET db_task == st.rows[task_id]
             updated == PutRow(st, task_id,
                               [title |-> IF "title" \in DOMAIN task.o
                                          THEN task.o.title.s ELSE db_task.title,
                                completed |-> IF "completed" \in DOMAIN task.o
                                              THEN task.o.completed.b
                                              ELSE db_task.completed,
                                updated_at |-> PyStr(now)])
         IN  Served(Http(200, TaskResponse(updated, task_id)), updated)

\* lines 268-296
delete_task(task_id, st) ==
    IF task_id \notin DOMAIN st.rows
    THEN Served(http_exception_handler(404, "Task with ID " \o Decimal(task_id)
                                            \o " not found"), st)
    ELSE Served(Http(200, [message |-> "Task " \o Decimal(task_id)
                                       \o " deleted successfully"]),
                DropRow(st, task_id))

\* lines 299-319; completion_rate in hundredths of a percent
get_task_stats(st) ==
    LET total_tasks == Cardinality(DOMAIN st.rows)
        completed_tasks == Cardinality({i \in DOMAIN st.rows : st.rows[i].completed})
        pending_tasks == total_tasks - completed_tasks
    IN  Served(Http(200, [total_tasks |-> total_tasks,
                          completed_tasks |-> completed_tasks,
                          pending_tasks |-> pending_tasks,
                          completion_rate |->
                              IF total_tasks > 0
                              THEN (completed_tasks * 10000) \div total_tasks ELSE 0]),
               st)

(***************************************************************************)
(* The router: the routes in the order their decorators run, the first     *)
(* whose method and path match serves the request; then the framework      *)
(* converts the path parameter and validates the body before the endpoint  *)
(* is called.                                                              *)
(***************************************************************************)
TaskRoutes ==
    <<[method |-> "GET", path |-> <<"tasks">>, endpoint |-> "get_tasks"],
      [method |-> "POST", path |-> <<"tasks">>, endpoint |-> "create_task"],
      [method |-> "GET", path |-> <<"tasks", "{task_id}">>, endpoint |-> "get_task"],
      [method |-> "PUT", path |-> <<"tasks", "{task_id}">>, endpoint |-> "update_task"],
      [method |-> "DELETE", path |-> <<"tasks", "{task_id}">>, endpoint |-> "delete_task"],
      [method |-> "GET", path |-> <<"tasks", "stats">>, endpoint |-> "get_task_stats"]>>

\* a path parameter matches any one segment
PathMatches(pattern, path) ==
    /\ Len(pattern) = Len(path)
    /\ \A i \in 1..Len(path) : pattern[i] = path[i] \/ pattern[i] = "{task_id}"

\* the endpoint of the first route that matches, "none" if no route does
RouteTo(method, path) ==
    LET hits == {i \in 1..Len(TaskRoutes) :
                    TaskRoutes[i].method = method /\ PathMatches(TaskRoutes[i].path, path)}
    IN  IF hits = {} THEN "none"
        ELSE TaskRoutes[CHOOSE i \in hits : \A j \in hits : i <= j].endpoint

\* task: TaskCreate, lines 37-38: title is required, a str of 1 to 500 characters
ValidTaskCreate(body) ==
    /\ IsDict(body)
    /\ "title" \in DOMAIN body.o
    /\ IsStr(body.o.title)
    /\ Len(body.o.title.s) >= 1
    /\ Len(body.o.title.s) <= 500

\* task: TaskUpdate, lines 47-49: title null or a str of 1 to 500 characters,
\* completed null or a bool, each optional
ValidTaskUpdate(body) ==
    /\ IsDict(body)
    /\ "title" \in DOMAIN body.o =>
          \/ IsNone(body.o.title)
          \/ /\ IsStr(body.o.title)
             /\ Len(body.o.title.s) >= 1
             /\ Len(body.o.title.s) <= 500
    /\ "completed" \in DOMAIN body.o =>
          IsNone(body.o.completed) \/ body.o.completed.t = "bool"

\* one request served: the route, the validation, the endpoint
Serve(method, path, body, now, st) ==
    LET endpoint == RouteTo(method, path)
        task_id == IF Len(path) = 2 THEN PyInt(path[2]) ELSE NotCalled
        served ==
            CASE endpoint = "none" -> Served(Http(404, [detail |-> "Not Found"]), st)
              [] endpoint = "get_tasks" -> get_tasks(st)
              [] endpoint = "get_task_stats" -> get_task_stats(st)
              [] endpoint = "create_task" ->
                    IF ~ValidTaskCreate(body)
                    THEN Served(RequestValidationError(<<"body", "title">>), st)
                    ELSE create_task([title |-> body.o.title.s], st)
              [] endpoint = "get_task" ->
                    IF task_id.kind = "raise"
                    THEN Served(RequestValidationError(<<"path", "task_id">>), st)
                    ELSE get_task(task_id.value, st)
              [] endpoint = "update_task" ->
                    IF task_id.kind = "raise"
                    THEN Served(RequestValidationError(<<"path", "task_id">>), st)
                    ELSE IF ~ValidTaskUpdate(body)
                    THEN Served(RequestValidationError(<<"body">>), st)
                    ELSE update_task(task_id.value, body, now, st)
              [] endpoint = "delete_task" ->
                    IF task_id.kind = "raise"
                    THEN Served(RequestValidationError(<<"path", "task_id">>), st)
                    ELSE delete_task(task_id.value, st)
    IN  [endpoint |-> endpoint, http |-> served.http, store |-> served.store]

(***************************************************************************)
(* SpecTasks: requests to the task endpoints, in any order, against a      *)
(* table whose sequence gives at most MaxTasks ids.                        *)
(***************************************************************************)
MaxTasks == 2

PyBool(b) == [t |-> "bool", b |-> b]

\* no body, no title, an empty title, a title of blanks, a title with blanks around
CreateBodies ==
    {PyNone, EmptyDict, PyDict([title |-> PyStr("")]), PyDict([title |-> PyStr("   ")]),
     PyDict([title |-> PyStr(" Write docs ")])}

\* nothing set, a new title, completed set, a null title, an empty title, a title
\* of blanks with completed set, a null completed
UpdateBodies ==
    {EmptyDict, PyDict([title |-> PyStr("Deploy")]), PyDict([completed |-> PyBool(TRUE)]),
     PyDict([title |-> PyNone]), PyDict([title |-> PyStr("")]),
     PyDict([title |-> PyStr("   "), completed |-> PyBool(TRUE)]),
     PyDict([completed |-> PyNone])}

\* the ids the sequence can give, one it cannot, and the word of the statistics path
PathSegments == {Decimal(i) : i \in 1..(MaxTasks + 1)} \cup {"stats"}

InitTasks ==
    /\ webhook_secret = PyNone
    /\ request = NoRequest
    /\ verified = NotCalled
    /\ handled = NotCalled
    /\ responses = <<>>
    /\ tasks = <<>>
    /\ running = 0
    /\ gen = NotCalled
    /\ InitAgent
    /\ InitSide

\* one request served against the table as it is: the response written and the
\* table left behind
Exchange(method, path, body) ==
    Bind(Serve(method, path, body, TaskClock, store),
         LAMBDA r : [reply |-> [method |-> method, path |-> path, body |-> body,
                                endpoint |-> r.endpoint, http |-> r.http],
                     store |-> r.store])

\* GET /tasks
ListTasks ==
    /\ LET x == Exchange("GET", <<"tasks">>, PyNone)
        IN  reply' = x.reply /\ store' = x.store
    /\ UNCHANGED <<webhook_secret, request, verified, handled, responses, tasks, running,
                   gen, mailvars, extraction, startup, status, pipeline>>

\* POST /tasks; a request that would take an id is made while the sequence has one
CreateTask ==
    /\ \E body \in CreateBodies :
         /\ (ValidTaskCreate(body) /\ Strip(body.o.title.s) # "") => store.seq < MaxTasks
         /\ LET x == Exchange("POST", <<"tasks">>, body)
             IN  reply' = x.reply /\ store' = x.store
    /\ UNCHANGED <<webhook_secret, request, verified, handled, responses, tasks, running,
                   gen, mailvars, extraction, startup, status, pipeline>>

\* GET /tasks/<id>
GetTask ==
    /\ \E seg \in PathSegments \ {"stats"} :
         /\ LET x == Exchange("GET", <<"tasks", seg>>, PyNone)
             IN  reply' = x.reply /\ store' = x.store
    /\ UNCHANGED <<webhook_secret, request, verified, handled, responses, tasks, running,
                   gen, mailvars, extraction, startup, status, pipeline>>

\* PUT /tasks/<segment>
UpdateTask ==
    /\ \E seg \in PathSegments, body \in UpdateBodies :
         /\ LET x == Exchange("PUT", <<"tasks", seg>>, body)
             IN  reply' = x.reply /\ store' = x.store
    /\ UNCHANGED <<webhook_secret, request, verified, handled, responses, tasks, running,
                   gen, mailvars, extraction, startup, status, pipeline>>

\* DELETE /tasks/<segment>
DeleteTask ==
    /\ \E seg \in PathSegments :
         /\ LET x == Exchange("DELETE", <<"tasks", seg>>, PyNone)
             IN  reply' = x.reply /\ store' = x.store
    /\ UNCHANGED <<webhook_secret, request, verified, handled, responses, tasks, running,
                   gen, mailvars, extraction, startup, status, pipeline>>

\* GET /tasks/stats
GetTaskStats ==
    /\ LET x == Exchange("GET", <<"tasks", "stats">>, PyNone)
        IN  reply' = x.reply /\ store' = x.store
    /\ UNCHANGED <<webhook_secret, request, verified, handled, responses, tasks, running,
                   gen, mailvars, extraction, startup, status, pipeline>>

NextTasks == ListTasks \/ CreateTask \/ GetTask \/ UpdateTask \/ DeleteTask \/ GetTaskStats

SpecTasks == InitTasks /\ [][NextTasks]_vars

(***************************************************************************)
(* Properties of the task endpoints (SpecTasks)                            *)
(***************************************************************************)
\* C35: a GET of /tasks/stats is served by get_task_stats and answered 200 with
\* counts of the stored tasks: total_tasks is their number and equals
\* completed_tasks + pending_tasks.
C35_StatsServedByStatistics ==
    (reply # NotCalled /\ reply.method = "GET" /\ reply.path = <<"tasks", "stats">>) =>
        /\ reply.endpoint = "get_task_stats"
        /\ reply.http.status_code = 200
        /\ reply.http.content.total_tasks = Cardinality(DOMAIN store.rows)
        /\ reply.http.content.total_tasks =
              reply.http.content.completed_tasks + reply.http.content.pending_tasks

\* what the code does with it: the route of get_task takes the request and the
\* conversion of 'stats' to an int fails
C35_StatsCapturedByGetTask ==
    (reply # NotCalled /\ reply.method = "GET" /\ reply.path = <<"tasks", "stats">>) =>
        /\ reply.endpoint = "get_task"
        /\ reply.http = RequestValidationError(<<"path", "task_id">>)

\* the statistics were asked for while two tasks were stored
C35_Witness ==
    /\ reply # NotCalled
    /\ reply.method = "GET"
    /\ reply.path = <<"tasks", "stats">>
    /\ Cardinality(DOMAIN store.rows) = 2

\* the request of a step is a creation whose title is a str blank after trimming
BlankCreation ==
    /\ reply'.method = "POST"
    /\ IsDict(reply'.body)
    /\ "title" \in DOMAIN reply'.body.o
    /\ IsStr(reply'.body.o.title)
    /\ Strip(reply'.body.o.title.s) = ""

\* the request of a step is a get, update or delete of an integer id not stored
MissingId ==
    /\ reply'.method \in {"GET", "PUT", "DELETE"}
    /\ Len(reply'.path) = 2
    /\ IsDigits(reply'.path[2])
    /\ ParseDecimal(reply'.path[2]) \notin DOMAIN store.rows

C36_WitnessEmptyTitle ==
    /\ reply # NotCalled
    /\ reply.endpoint = "create_task"
    /\ reply.body = PyDict([title |-> PyStr("")])
    /\ reply.http.status_code = 422

\* the task that was deleted is asked for: 404, with the other task still stored
C36_WitnessDeleted ==
    /\ reply # NotCalled
    /\ reply.endpoint = "get_task"
    /\ reply.path = <<"tasks", "1">>
    /\ reply.http = Http(404, [detail |-> "Task with ID 1 not found"])
    /\ store.seq = 2
    /\ DOMAIN store.rows = {2}

\* an update with a null title was answered 500 and the row kept its title
C36_WitnessRolledBack ==
    /\ reply # NotCalled
    /\ reply.endpoint = "update_task"
    /\ reply.body = PyDict([title |-> PyNone])
    /\ reply.http.status_code = 500
    /\ 1 \in DOMAIN store.rows
    /\ store.rows[1].title = "Write docs"

====
